---- MODULE Spec2Model ----
(***************************************************************************)
(* A model of unclog's changelog engine: the in-memory document model,     *)
(* the release sort applied by Changelog::read_from_dir, the render        *)
(* pipeline and the entry-path iterators.                                  *)
(*                                                                         *)
(* References (&'a T) are modelled as positions inside the changelog that  *)
(* owns the tree; vectors are sequences and Vec::get(i) is 0-based.        *)
(* Option<T> is a sequence of length 0 (None) or 1 (Some).                 *)
(***************************************************************************)
EXTENDS Integers, Sequences, FiniteSets, TLC

\* ------------------------------------------------------------------------
\* Bounds of the model
\* ------------------------------------------------------------------------

\* Total size of a changelog drawn by Init: one unit per release directory,
\* per summary file, per section, per component section and per entry.
MaxWeight == 6

\* Entries in one directory (general entries of a section, or entries of a
\* component section).
MaxDirEntries == 2

\* Independent iterators obtained from Changelog::entries().
NumIters == 2

\* Total size of the changelog that several iterators walk at once.
MaxItersWeight == 5

\* Release directories under the changelog root when the release sort is
\* exercised.
MaxReleaseDirs == 3

\* ------------------------------------------------------------------------
\* Option and Vec helpers
\* ------------------------------------------------------------------------

NoneVal == <<>>

Some(v) == <<v>>

IsSome(o) == o # <<>>

Unwrap(o) == o[1]

\* Vec::get / slice::get with a 0-based index
Get(s, i) == IF i >= 0 /\ i < Len(s) THEN <<s[i + 1]>> ELSE <<>>

Min(a, b) == IF a < b THEN a ELSE b

\* -------------------------------------------------------------------------
\* Strings as sequences of characters
\* -------------------------------------------------------------------------

\* Result<T, Error>
Ok(v) == [ok |-> TRUE, value |-> v]

Err(e) == [ok |-> FALSE, value |-> e]

\* The strings of this model that are taken apart or put together character
\* by character, each with its characters.
StringTable ==
    <<
    <<"", <<>>>>,
    <<"18446744073709551615", <<"1", "8", "4", "4", "6", "7", "4", "4", "0", "7", "3", "7", "0", "9", "5", "5", "1", "6", "1", "5">>>>,
    <<"18446744073709551616", <<"1", "8", "4", "4", "6", "7", "4", "4", "0", "7", "3", "7", "0", "9", "5", "5", "1", "6", "1", "6">>>>,
    <<"018446744073709551615-x", <<"0", "1", "8", "4", "4", "6", "7", "4", "4", "0", "7", "3", "7", "0", "9", "5", "5", "1", "6", "1", "5", "-", "x">>>>,
    <<"0018446744073709551616-x", <<"0", "0", "1", "8", "4", "4", "6", "7", "4", "4", "0", "7", "3", "7", "0", "9", "5", "5", "1", "6", "1", "6", "-", "x">>>>,
    <<"99999999999999999999", <<"9", "9", "9", "9", "9", "9", "9", "9", "9", "9", "9", "9", "9", "9", "9", "9", "9", "9", "9", "9">>>>,
    <<"184467440737095516150", <<"1", "8", "4", "4", "6", "7", "4", "4", "0", "7", "3", "7", "0", "9", "5", "5", "1", "6", "1", "5", "0">>>>,
    <<"4294967296-a", <<"4", "2", "9", "4", "9", "6", "7", "2", "9", "6", "-", "a">>>>,
    <<"65536", <<"6", "5", "5", "3", "6">>>>,
    <<"0128-another-issue", <<"0", "1", "2", "8", "-", "a", "n", "o", "t", "h", "e", "r", "-", "i", "s", "s", "u", "e">>>>,
    <<"830-something", <<"8", "3", "0", "-", "s", "o", "m", "e", "t", "h", "i", "n", "g">>>>,
    <<"no-number", <<"n", "o", "-", "n", "u", "m", "b", "e", "r">>>>,
    <<".md", <<".", "m", "d">>>>,
    <<"bug-fixes", <<"b", "u", "g", "-", "f", "i", "x", "e", "s">>>>,
    <<"deps", <<"d", "e", "p", "s">>>>,
    <<"features", <<"f", "e", "a", "t", "u", "r", "e", "s">>>>,
    <<"improvements", <<"i", "m", "p", "r", "o", "v", "e", "m", "e", "n", "t", "s">>>>,
    <<"notes", <<"n", "o", "t", "e", "s">>>>,
    <<"removed", <<"r", "e", "m", "o", "v", "e", "d">>>>,
    <<"security", <<"s", "e", "c", "u", "r", "i", "t", "y">>>>,
    <<"tests", <<"t", "e", "s", "t", "s">>>>,
    <<"BUG FIXES", <<"B", "U", "G", " ", "F", "I", "X", "E", "S">>>>,
    <<"DEPS", <<"D", "E", "P", "S">>>>,
    <<"FEATURES", <<"F", "E", "A", "T", "U", "R", "E", "S">>>>,
    <<"IMPROVEMENTS", <<"I", "M", "P", "R", "O", "V", "E", "M", "E", "N", "T", "S">>>>,
    <<"NOTES", <<"N", "O", "T", "E", "S">>>>,
    <<"REMOVED", <<"R", "E", "M", "O", "V", "E", "D">>>>,
    <<"SECURITY", <<"S", "E", "C", "U", "R", "I", "T", "Y">>>>,
    <<"TESTS", <<"T", "E", "S", "T", "S">>>>,
    <<"- a", <<"-", " ", "a">>>>,
    <<"- b", <<"-", " ", "b">>>>,
    <<"- c", <<"-", " ", "c">>>>,
    <<"- d", <<"-", " ", "d">>>>,
    <<"- e", <<"-", " ", "e">>>>,
    <<"- f", <<"-", " ", "f">>>>,
    <<"- g", <<"-", " ", "g">>>>,
    <<"- h", <<"-", " ", "h">>>>,
    <<"1-a.md", <<"1", "-", "a", ".", "m", "d">>>>,
    <<"01-b.md", <<"0", "1", "-", "b", ".", "m", "d">>>>,
    <<"2-c.md", <<"2", "-", "c", ".", "m", "d">>>>,
    <<"x.md", <<"x", ".", "m", "d">>>>,
    <<"c1", <<"c", "1">>>>,
    <<"c2", <<"c", "2">>>>,
    <<"zz", <<"z", "z">>>>,
    <<"bug fixes", <<"b", "u", "g", " ", "f", "i", "x", "e", "s">>>>,
    <<"summary.md", <<"s", "u", "m", "m", "a", "r", "y", ".", "m", "d">>>>,
    <<"summary", <<"s", "u", "m", "m", "a", "r", "y">>>>,
    <<"unreleased", <<"u", "n", "r", "e", "l", "e", "a", "s", "e", "d">>>>,
    <<"v0.1.0", <<"v", "0", ".", "1", ".", "0">>>>,
    <<"v0.2.0", <<"v", "0", ".", "2", ".", "0">>>>,
    <<"prologue.md", <<"p", "r", "o", "l", "o", "g", "u", "e", ".", "m", "d">>>>,
    <<"epilogue.md", <<"e", "p", "i", "l", "o", "g", "u", "e", ".", "m", "d">>>>,
    <<".changelog", <<".", "c", "h", "a", "n", "g", "e", "l", "o", "g">>>>,
    <<"md", <<"m", "d">>>>,
    <<"- b\n", <<"-", " ", "b", "\n">>>>,
    <<"- x", <<"-", " ", "x">>>>,
    <<"\n", <<"\n">>>>,
    <<"intro\n", <<"i", "n", "t", "r", "o", "\n">>>>,
    <<"intro", <<"i", "n", "t", "r", "o">>>>,
    <<"outro", <<"o", "u", "t", "r", "o">>>>,
    <<"1-a", <<"1", "-", "a">>>>,
    <<"2-c", <<"2", "-", "c">>>>,
    <<"v1", <<"v", "1">>>>,
    <<".gitkeep", <<".", "g", "i", "t", "k", "e", "e", "p">>>>,
    <<"v1.0", <<"v", "1", ".", "0">>>>,
    <<"2-d.md", <<"2", "-", "d", ".", "m", "d">>>>
    >>

\* str::chars
Chars(s) == StringTable[CHOOSE k \in 1..Len(StringTable) : StringTable[k][1] = s][2]

\* String::from_iter(chars)
Str(cs) == StringTable[CHOOSE k \in 1..Len(StringTable) : StringTable[k][2] = cs][1]

Digits == <<"0", "1", "2", "3", "4", "5", "6", "7", "8", "9">>

\* char::is_ascii_digit
is_ascii_digit(c) == \E d \in 1..Len(Digits) : Digits[d] = c

\* char::to_digit(10) of an ASCII digit
to_digit(c) == (CHOOSE d \in 1..Len(Digits) : Digits[d] = c) - 1

\* -------------------------------------------------------------------------
\* u64: four 16-bit limbs, least significant first
\* -------------------------------------------------------------------------

U64Limbs == 64 \div 16

U64Zero == [l \in 1..U64Limbs |-> 0]

U64_mul_add_push(t, rest) ==
    [limbs |-> <<t % (2^16)>> \o rest.limbs, carry |-> rest.carry]

RECURSIVE U64_mul_add(_, _, _)
\* limbs * m + carry in 64 bits; a carry out of the top limb is the overflow
\* that u64::checked_mul and u64::checked_add report
U64_mul_add(limbs, m, carry) ==
    IF limbs = <<>> THEN [limbs |-> <<>>, carry |-> carry]
    ELSE U64_mul_add_push(limbs[1] * m + carry,
             U64_mul_add(Tail(limbs), m, (limbs[1] * m + carry) \div (2^16)))

RECURSIVE U64_cmp_from(_, _, _)
U64_cmp_from(a, b, l) ==
    IF l = 0 THEN "Equal"
    ELSE IF a[l] < b[l] THEN "Less"
    ELSE IF a[l] > b[l] THEN "Greater"
    ELSE U64_cmp_from(a, b, l - 1)

\* u64::cmp
U64_cmp(a, b) == U64_cmp_from(a, b, U64Limbs)

RECURSIVE u64_from_digits_wrapping(_, _, _)
\* u64 parsing that would keep the low 64 bits of an oversized number
u64_from_digits_wrapping(digits, k, acc) ==
    IF k > Len(digits) THEN Ok(acc)
    ELSE u64_from_digits_wrapping(digits, k + 1,
             U64_mul_add(acc, 10, to_digit(digits[k])).limbs)

u64_from_str_wrapping(digits) ==
    IF digits = <<>> THEN Err("ParseIntError(Empty)")
    ELSE u64_from_digits_wrapping(digits, 1, U64Zero)

RECURSIVE u64_from_digits(_, _, _)
u64_from_digits_step(digits, k, step) ==
    IF step.carry # 0 THEN Err("ParseIntError(PosOverflow)")
    ELSE u64_from_digits(digits, k + 1, step.limbs)

\* the digit loop of u64::from_str: result = result * 10 + digit, checked
u64_from_digits(digits, k, acc) ==
    IF k > Len(digits) THEN Ok(acc)
    ELSE u64_from_digits_step(digits, k, U64_mul_add(acc, 10, to_digit(digits[k])))

\* u64::from_str on a string of ASCII digits (possibly empty)
u64_from_str(digits) ==
    IF digits = <<>> THEN Err("ParseIntError(Empty)")
    ELSE u64_from_digits(digits, 1, U64Zero)

\* -------------------------------------------------------------------------
\* Entry ids (changelog/entry.rs)
\* -------------------------------------------------------------------------

RECURSIVE position_non_digit(_, _)
\* s.chars().position(|c| !c.is_ascii_digit()), scanning from character k
position_non_digit(s, k) ==
    IF k > Len(s) THEN NoneVal
    ELSE IF ~is_ascii_digit(s[k]) THEN Some(k - 1)
    ELSE position_non_digit(s, k + 1)

extract_entry_id_digits(s, num_digits) ==
    IF ~IsSome(num_digits) THEN Err("InvalidEntryId")
    ELSE u64_from_str(SubSeq(s, 1, Unwrap(num_digits)))

\* extract_entry_id
extract_entry_id(s) == extract_entry_id_digits(s, position_non_digit(s, 1))

\* -------------------------------------------------------------------------
\* Entry indentation (changelog/change_set_section.rs)
\* -------------------------------------------------------------------------

RECURSIVE split_from(_, _, _, _)
\* str::split(sep): the pieces of s between occurrences of the character sep;
\* cur is the piece being read at character k
split_from(s, sep, k, cur) ==
    IF k > Len(s) THEN <<cur>>
    ELSE IF s[k] = sep THEN <<cur>> \o split_from(s, sep, k + 1, <<>>)
    ELSE split_from(s, sep, k + 1, Append(cur, s[k]))

split(s, sep) == split_from(s, sep, 1, <<>>)

\* char::is_whitespace, for the characters of this model
is_whitespace(c) == c \in {" ", "\t", "\n", "\r"}

RECURSIVE trim_start(_)
\* str::trim_start
trim_start(s) ==
    IF s # <<>> /\ is_whitespace(s[1]) THEN trim_start(Tail(s)) ELSE s

RECURSIVE trim_end(_)
\* str::trim_end
trim_end(s) ==
    IF s # <<>> /\ is_whitespace(s[Len(s)]) THEN trim_end(SubSeq(s, 1, Len(s) - 1)) ELSE s

\* str::trim
trim(s) == trim_end(trim_start(s))

\* str::starts_with(char)
starts_with(s, c) == s # <<>> /\ s[1] = c

\* the closure of indent_bulleted_str: one output line, as the number of
\* spaces written and the text after them
indent_bulleted_line(line_trimmed, indent, overflow_indent) ==
    [indent |-> IF starts_with(line_trimmed, "*") \/ starts_with(line_trimmed, "-")
                THEN indent ELSE overflow_indent,
     text |-> line_trimmed]

indent_bulleted_lines(lines, indent, overflow_indent) ==
    [k \in 1..Len(lines) |-> indent_bulleted_line(trim(lines[k]), indent, overflow_indent)]

\* indent_bulleted_str on the characters of s
indent_bulleted_chars(s, indent, overflow_indent) ==
    indent_bulleted_lines(split(s, "\n"), indent, overflow_indent)

\* u8 addition as the release build computes it (overflow checks off)
U8_wrapping_add(a, b) == (a + b) % (2^8)

\* whether a u8 addition overflows, which panics when overflow checks are on
U8_add_overflows(a, b) == a + b >= 2^8

\* -------------------------------------------------------------------------
\* Section titles (changelog/change_set_section.rs)
\* -------------------------------------------------------------------------

LowerLetters ==
    <<"a", "b", "c", "d", "e", "f", "g", "h", "i", "j", "k", "l", "m",
      "n", "o", "p", "q", "r", "s", "t", "u", "v", "w", "x", "y", "z">>

UpperLetters ==
    <<"A", "B", "C", "D", "E", "F", "G", "H", "I", "J", "K", "L", "M",
      "N", "O", "P", "Q", "R", "S", "T", "U", "V", "W", "X", "Y", "Z">>

\* char::to_uppercase, for ASCII
char_to_uppercase(c) ==
    IF \E l \in 1..Len(LowerLetters) : LowerLetters[l] = c
    THEN UpperLetters[CHOOSE l \in 1..Len(LowerLetters) : LowerLetters[l] = c]
    ELSE c

\* str::to_uppercase
to_uppercase(s) == [k \in 1..Len(s) |-> char_to_uppercase(s[k])]

\* str::replace(from, to) for single characters
replace(s, from, to) == [k \in 1..Len(s) |-> IF s[k] = from THEN to ELSE s[k]]

\* change_set_section_title on the characters of an id
change_set_section_title_chars(id) == to_uppercase(replace(id, "-", " "))

\* ------------------------------------------------------------------------
\* Names used by the directories that Init draws
\* ------------------------------------------------------------------------

\* Section directory names, in ascending order of their title.
SectionIds ==
    <<"bug-fixes", "deps", "features", "improvements", "notes", "removed", "security", "tests">>

\* change_set_section_title
change_set_section_title(id) == Str(change_set_section_title_chars(Chars(id)))

\* Component directory names, in ascending order.
ComponentIds == <<"c1", "c2", "c3", "c4", "c5", "c6", "c7", "c8">>

\* The details of the entries of the changelogs of this model: the k-th
\* entry has the id k and the k-th of these texts.
EntryDetails == <<"- a", "- b", "- c", "- d", "- e", "- f", "- g", "- h">>

\* The names of the entry files, in ascending order of their numeric id.
EntryFilenames ==
    <<"1-a.md", "2-b.md", "3-c.md", "4-d.md", "5-e.md", "6-f.md", "7-g.md", "8-h.md">>

\* Release directory names and the semantic version each one parses to.
ReleaseIds == <<"v0.1.0", "v0.2.0", "v0.10.0", "v1.0.0", "v1.1.0", "v2.0.0", "v2.1.0", "v3.0.0">>

ReleaseVersions ==
    <<(<<0, 1, 0>>), (<<0, 2, 0>>), (<<0, 10, 0>>), (<<1, 0, 0>>),
      (<<1, 1, 0>>), (<<2, 0, 0>>), (<<2, 1, 0>>), (<<3, 0, 0>>)>>

\* ------------------------------------------------------------------------
\* The document model
\* ------------------------------------------------------------------------

\* The components that the configuration of this model declares
\* ([components.all] of config.toml): "c2" has a path, the others have none.
DeclaredComponents ==
    [c \in { ComponentIds[k] : k \in 1..Len(ComponentIds) } |->
        [name |-> c, maybe_path |-> IF c = "c2" THEN Some("crates/c2") ELSE NoneVal]]

\* struct Entry { id, details }, as Entry::read_from_file builds it from
\* the k-th of EntryFilenames, a file whose name starts with the number k
\* and whose content is the k-th of EntryDetails.
Entry(k) == [id |-> U64_mul_add(U64Zero, 1, k).limbs, details |-> EntryDetails[k]]

\* struct ComponentSection { id, name, maybe_path, entries }, as
\* ComponentSection::read_from_dir builds it for a declared component
ComponentSection(c, entries) ==
    [id |-> ComponentIds[c],
     name |-> DeclaredComponents[ComponentIds[c]].name,
     maybe_path |-> DeclaredComponents[ComponentIds[c]].maybe_path,
     entries |-> entries]

\* struct ChangeSetSection { id, title, entries, component_sections }
ChangeSetSection(j, entries, component_sections) ==
    [id |-> SectionIds[j], title |-> change_set_section_title(SectionIds[j]),
     entries |-> entries, component_sections |-> component_sections]

\* struct ChangeSet { maybe_summary, sections }
ChangeSet(maybe_summary, sections) ==
    [maybe_summary |-> maybe_summary, sections |-> sections]

\* struct Release { id, version, maybe_date, changes }
Release(k, maybe_date, changes) ==
    [id |-> ReleaseIds[k], version |-> ReleaseVersions[k],
     maybe_date |-> maybe_date, changes |-> changes]

\* struct Changelog { maybe_unreleased, releases, prologue, epilogue }
Changelog(maybe_unreleased, releases, prologue, epilogue) ==
    [maybe_unreleased |-> maybe_unreleased, releases |-> releases,
     prologue |-> prologue, epilogue |-> epilogue]

\* ------------------------------------------------------------------------
\* The changelogs that Init draws: every directory tree of bounded weight,
\* loaded and sorted (sections by title, component sections by id, entries
\* by id, releases by version descending).
\* ------------------------------------------------------------------------

\* Entry counts of the component directories of one section, total weight w.
RECURSIVE ComponentShapes(_)
ComponentShapes(w) ==
    IF w = 0 THEN {<<>>}
    ELSE UNION { { <<e>> \o r : r \in ComponentShapes(w - 1 - e) } :
                 e \in 0..Min(MaxDirEntries, w - 1) }

\* One section directory of weight w >= 1: g general entries plus components.
SectionShapes(w) ==
    UNION { { [g |-> g, comps |-> c] : c \in ComponentShapes(w - 1 - g) } :
            g \in 0..Min(MaxDirEntries, w - 1) }

\* The section directories of one change set, total weight w.
RECURSIVE SectionListShapes(_)
SectionListShapes(w) ==
    IF w = 0 THEN {<<>>}
    ELSE UNION { { <<s>> \o r : s \in SectionShapes(k), r \in SectionListShapes(w - k) } :
                 k \in 1..w }

\* One change set directory of weight w: an optional summary file (one unit)
\* and its sections.
ChangeSetShapes(w) ==
    { [summary |-> FALSE, sections |-> sl] : sl \in SectionListShapes(w) }
    \cup (IF w = 0 THEN {}
          ELSE { [summary |-> TRUE, sections |-> sl] : sl \in SectionListShapes(w - 1) })

\* The release directories, total weight w (one unit per release directory).
RECURSIVE ReleaseListShapes(_)
ReleaseListShapes(w) ==
    IF w = 0 THEN {<<>>}
    ELSE UNION { { <<cs>> \o r : cs \in ChangeSetShapes(k - 1), r \in ReleaseListShapes(w - k) } :
                 k \in 1..w }

ChangelogShapes(weight) ==
    UNION { { [unreleased |-> u, releases |-> r] :
              u \in (IF wu = 0 THEN {<<>>} ELSE {}) \cup { <<cs>> : cs \in ChangeSetShapes(wu) },
              r \in ReleaseListShapes(wr) } :
            <<wu, wr>> \in { p \in (0..weight) \X (0..weight) : p[1] + p[2] <= weight } }

\* The files of one directory, as read_entries_sorted returns them.
DirEntries(n) == [k \in 1..n |-> Entry(k)]

MkComponentSections(comps) ==
    [c \in 1..Len(comps) |-> ComponentSection(c, DirEntries(comps[c]))]

MkSections(sl) ==
    [j \in 1..Len(sl) |->
        ChangeSetSection(j, DirEntries(sl[j].g), MkComponentSections(sl[j].comps))]

MkChangeSet(cs) ==
    ChangeSet(IF cs.summary THEN Some("summary") ELSE NoneVal, MkSections(cs.sections))

\* Release directories in descending version order: the first release of n
\* is the newest.
MkReleases(rl) ==
    [i \in 1..Len(rl) |-> Release(Len(rl) + 1 - i, NoneVal, MkChangeSet(rl[i]))]

MkChangelog(shape) ==
    Changelog(IF shape.unreleased = <<>> THEN NoneVal
              ELSE Some(MkChangeSet(shape.unreleased[1])),
              MkReleases(shape.releases), NoneVal, NoneVal)

Changelogs(weight) == { MkChangelog(shape) : shape \in ChangelogShapes(weight) }

\* The entries es of one directory of Changelogs, each with the name of the
\* file that it was loaded from (Entry = {filename, id, details} in the data
\* model of the specification; entry.rs records no file name).
DirEntries_with_filenames(es) ==
    [k \in 1..Len(es) |->
        [filename |-> EntryFilenames[k], id |-> es[k].id, details |-> es[k].details]]

MkSections_with_filenames(sections) ==
    [j \in 1..Len(sections) |->
        [id |-> sections[j].id,
         title |-> sections[j].title,
         entries |-> DirEntries_with_filenames(sections[j].entries),
         component_sections |->
             [c \in 1..Len(sections[j].component_sections) |->
                 [id |-> sections[j].component_sections[c].id,
                  name |-> sections[j].component_sections[c].name,
                  maybe_path |-> sections[j].component_sections[c].maybe_path,
                  entries |-> DirEntries_with_filenames(
                                  sections[j].component_sections[c].entries)]]]]

MkChangeSet_with_filenames(cs) ==
    [maybe_summary |-> cs.maybe_summary, sections |-> MkSections_with_filenames(cs.sections)]

\* a changelog of Changelogs with the file name of every entry
MkChangelog_with_filenames(cl) ==
    [maybe_unreleased |->
         IF cl.maybe_unreleased = NoneVal THEN NoneVal
         ELSE Some(MkChangeSet_with_filenames(Unwrap(cl.maybe_unreleased))),
     releases |-> [i \in 1..Len(cl.releases) |->
                      [id |-> cl.releases[i].id,
                       version |-> cl.releases[i].version,
                       maybe_date |-> cl.releases[i].maybe_date,
                       changes |-> MkChangeSet_with_filenames(cl.releases[i].changes)]],
     prologue |-> cl.prologue,
     epilogue |-> cl.epilogue]

\* ------------------------------------------------------------------------
\* Emptiness predicates
\* ------------------------------------------------------------------------

\* ComponentSection::is_empty
ComponentSection_is_empty(cs) == cs.entries = <<>>

\* ChangeSetSection::is_empty
ChangeSetSection_is_empty(s) == s.entries = <<>> /\ s.component_sections = <<>>

\* ChangeSet::are_sections_empty
ChangeSet_are_sections_empty(cs) ==
    \A j \in 1..Len(cs.sections) : ChangeSetSection_is_empty(cs.sections[j])

\* ChangeSet::is_empty (String::is_empty on the summary)
ChangeSet_is_empty(cs) ==
    (cs.maybe_summary = NoneVal \/ cs.maybe_summary = Some(""))
    /\ ChangeSet_are_sections_empty(cs)

\* Changelog::is_empty
Changelog_is_empty(cl) ==
    /\ (cl.maybe_unreleased = NoneVal \/ ChangeSet_is_empty(Unwrap(cl.maybe_unreleased)))
    /\ \A i \in 1..Len(cl.releases) : ChangeSet_is_empty(cl.releases[i].changes)
    /\ (cl.prologue = NoneVal \/ cl.prologue = Some(""))
    /\ (cl.epilogue = NoneVal \/ cl.epilogue = Some(""))

\* ------------------------------------------------------------------------
\* References into a changelog.  A change set is addressed by -1 (the
\* unreleased change set) or by the 0-based index of its release; sections,
\* component sections and entries by their 0-based index in the owning Vec.
\* ------------------------------------------------------------------------

UnreleasedRef == 0 - 1

SectionRef(cs, sec) == [cs |-> cs, sec |-> sec]

ComponentRef(cs, sec, comp) == [cs |-> cs, sec |-> sec, comp |-> comp]

\* comp = -1 addresses the general entries of the section
EntryRef(cs, sec, comp, ent) == [cs |-> cs, sec |-> sec, comp |-> comp, ent |-> ent]

DerefChangeSet(cl, cs) ==
    IF cs = UnreleasedRef THEN Unwrap(cl.maybe_unreleased) ELSE cl.releases[cs + 1].changes

DerefSection(cl, r) == DerefChangeSet(cl, r.cs).sections[r.sec + 1]

DerefComponent(cl, r) == DerefSection(cl, r).component_sections[r.comp + 1]

DerefEntry(cl, r) ==
    IF r.comp = 0 - 1 THEN DerefSection(cl, r).entries[r.ent + 1]
    ELSE DerefComponent(cl, r).entries[r.ent + 1]

\* The result of a next() call: the iterator after the call and the item.
Step(it, out) == [it |-> it, out |-> out]

\* ------------------------------------------------------------------------
\* ComponentSectionIter: the entries of one component section
\* ------------------------------------------------------------------------

ComponentSectionIter_new(cl, section) ==
    IF ComponentSection_is_empty(DerefComponent(cl, section)) THEN NoneVal
    ELSE Some([section |-> section, entry_id |-> 0])

\* Faulty variant of next(): walks the entries from the last one backwards.
ComponentSectionIter_next_backwards(cl, it) ==
    LET n == Len(DerefComponent(cl, it.section).entries)
    IN IF it.entry_id >= n
       THEN Step(it, NoneVal)
       ELSE Step([it EXCEPT !.entry_id = @ + 1],
                 Some(EntryRef(it.section.cs, it.section.sec, it.section.comp,
                               n - 1 - it.entry_id)))

ComponentSectionIter_next(cl, it) ==
    IF Get(DerefComponent(cl, it.section).entries, it.entry_id) = NoneVal
    THEN Step(it, NoneVal)
    ELSE Step([it EXCEPT !.entry_id = @ + 1],
              Some(EntryRef(it.section.cs, it.section.sec, it.section.comp, it.entry_id)))

\* ------------------------------------------------------------------------
\* ComponentSectionsIter: the component sections of one section
\* ------------------------------------------------------------------------

RECURSIVE ComponentSectionsIter_scan(_, _, _)
\* the `for (section_id, section) in ... enumerate()` loop of new()
ComponentSectionsIter_scan(cl, sections, section_id) ==
    IF section_id >= Len(DerefSection(cl, sections).component_sections) THEN NoneVal
    ELSE LET section_iter ==
                 ComponentSectionIter_new(cl, ComponentRef(sections.cs, sections.sec, section_id))
         IN IF IsSome(section_iter)
            THEN Some([sections |-> sections, section_id |-> section_id,
                       section_iter |-> Unwrap(section_iter)])
            ELSE ComponentSectionsIter_scan(cl, sections, section_id + 1)

ComponentSectionsIter_new(cl, change_set_section) ==
    ComponentSectionsIter_scan(cl, change_set_section, 0)

RECURSIVE ComponentSectionsIter_next(_, _)
RECURSIVE ComponentSectionsIter_advance(_, _)
RECURSIVE ComponentSectionsIter_next_match(_, _, _)
\* the `while maybe_section_iter.is_none()` loop of next(), then self.next()
ComponentSectionsIter_advance(cl, it) ==
    LET section_id == it.section_id + 1
        moved == [it EXCEPT !.section_id = section_id]
    IN IF Get(DerefSection(cl, it.sections).component_sections, section_id) = NoneVal
       THEN Step(moved, NoneVal)
       ELSE LET maybe_section_iter ==
                    ComponentSectionIter_new(cl,
                        ComponentRef(it.sections.cs, it.sections.sec, section_id))
            IN IF maybe_section_iter = NoneVal
               THEN ComponentSectionsIter_advance(cl, moved)
               ELSE ComponentSectionsIter_next(cl,
                        [moved EXCEPT !.section_iter = Unwrap(maybe_section_iter)])

ComponentSectionsIter_next(cl, it) ==
    IF Get(DerefSection(cl, it.sections).component_sections, it.section_id) = NoneVal
    THEN Step(it, NoneVal)
    ELSE ComponentSectionsIter_next_match(cl, it,
             ComponentSectionIter_next(cl, it.section_iter))

\* the `match section_iter.next()` of next(), r being the result of that call
ComponentSectionsIter_next_match(cl, it, r) ==
    IF IsSome(r.out)
    THEN Step([it EXCEPT !.section_iter = r.it],
              Some([tag |-> "Component",
                    component_section |->
                        ComponentRef(it.sections.cs, it.sections.sec, it.section_id),
                    entry |-> Unwrap(r.out)]))
    ELSE ComponentSectionsIter_advance(cl, [it EXCEPT !.section_iter = r.it])

\* ------------------------------------------------------------------------
\* ChangeSetSectionIter: general entries, then the component sections
\* ------------------------------------------------------------------------

ChangeSetSectionIter_new(cl, section) ==
    IF DerefSection(cl, section).entries # <<>>
    THEN Some([section |-> section, state |-> [tag |-> "General", entry_id |-> 0]])
    ELSE LET csi == ComponentSectionsIter_new(cl, section)
         IN IF csi = NoneVal THEN NoneVal
            ELSE Some([section |-> section,
                       state |-> [tag |-> "ComponentSection", iter |-> Unwrap(csi)]])

\* the `component_sections_iter.next()?` of next(), r being the result of
\* that call
ChangeSetSectionIter_next_match(it, r) ==
    IF r.out = NoneVal
    THEN Step([it EXCEPT !.state = [tag |-> "ComponentSection", iter |-> r.it]], NoneVal)
    ELSE Step([it EXCEPT !.state = [tag |-> "ComponentSection", iter |-> r.it]],
              Some([change_set_section |-> it.section,
                    component_path |-> Unwrap(r.out)]))

\* the ChangeSetSectionIterState::ComponentSection arm of next()
ChangeSetSectionIter_next_component(cl, it) ==
    ChangeSetSectionIter_next_match(it, ComponentSectionsIter_next(cl, it.state.iter))

ChangeSetSectionIter_next(cl, it) ==
    IF it.state.tag = "General"
    THEN IF IsSome(Get(DerefSection(cl, it.section).entries, it.state.entry_id))
         THEN Step([it EXCEPT !.state.entry_id = @ + 1],
                   Some([change_set_section |-> it.section,
                         component_path |->
                             [tag |-> "General",
                              component_section |->
                                  ComponentRef(it.section.cs, it.section.sec, 0 - 1),
                              entry |-> EntryRef(it.section.cs, it.section.sec, 0 - 1,
                                                 it.state.entry_id)]]))
         ELSE LET csi == ComponentSectionsIter_new(cl, it.section)
              IN IF csi = NoneVal THEN Step(it, NoneVal)
                 ELSE ChangeSetSectionIter_next_component(cl,
                          [it EXCEPT !.state = [tag |-> "ComponentSection",
                                                iter |-> Unwrap(csi)]])
    ELSE ChangeSetSectionIter_next_component(cl, it)

\* ------------------------------------------------------------------------
\* ChangeSetIter: the sections of one change set
\* ------------------------------------------------------------------------

ChangeSetIter_new(cl, change_set) ==
    IF DerefChangeSet(cl, change_set).sections = <<>> THEN NoneVal
    ELSE LET section_iter == ChangeSetSectionIter_new(cl, SectionRef(change_set, 0))
         IN IF section_iter = NoneVal THEN NoneVal
            ELSE Some([change_set |-> change_set, section_id |-> 0,
                       section_iter |-> Unwrap(section_iter)])

RECURSIVE ChangeSetIter_next(_, _)
RECURSIVE ChangeSetIter_advance(_, _)
RECURSIVE ChangeSetIter_next_match(_, _, _)
\* the `while maybe_section_iter.is_none()` loop of next(), then self.next()
ChangeSetIter_advance(cl, it) ==
    LET section_id == it.section_id + 1
        moved == [it EXCEPT !.section_id = section_id]
    IN IF Get(DerefChangeSet(cl, it.change_set).sections, section_id) = NoneVal
       THEN Step(moved, NoneVal)
       ELSE LET maybe_section_iter ==
                    ChangeSetSectionIter_new(cl, SectionRef(it.change_set, section_id))
            IN IF maybe_section_iter = NoneVal
               THEN ChangeSetIter_advance(cl, moved)
               ELSE ChangeSetIter_next(cl,
                        [moved EXCEPT !.section_iter = Unwrap(maybe_section_iter)])

ChangeSetIter_next(cl, it) ==
    IF Get(DerefChangeSet(cl, it.change_set).sections, it.section_id) = NoneVal
    THEN Step(it, NoneVal)
    ELSE ChangeSetIter_next_match(cl, it, ChangeSetSectionIter_next(cl, it.section_iter))

\* the `match section_iter.next()` of next(), r being the result of that call
ChangeSetIter_next_match(cl, it, r) ==
    IF IsSome(r.out)
    THEN Step([it EXCEPT !.section_iter = r.it],
              Some([change_set |-> it.change_set, section_path |-> Unwrap(r.out)]))
    ELSE ChangeSetIter_advance(cl, [it EXCEPT !.section_iter = r.it])

\* ------------------------------------------------------------------------
\* ReleasesIter: the change sets of the releases
\* ------------------------------------------------------------------------

ReleasesIter_new(cl) ==
    IF cl.releases = <<>> THEN NoneVal
    ELSE LET change_set_iter == ChangeSetIter_new(cl, 0)
         IN IF change_set_iter = NoneVal THEN NoneVal
            ELSE Some([id |-> 0, change_set_iter |-> Unwrap(change_set_iter)])

RECURSIVE ReleasesIter_next(_, _)
RECURSIVE ReleasesIter_advance(_, _)
RECURSIVE ReleasesIter_next_match(_, _, _)
\* Faulty variant: the release fetched at the top of next() is reported
\* although the iterator may have moved on from the first release.
ReleasesIter_next_match_stale(cl, it, r) ==
    IF IsSome(r.out)
    THEN Step([it EXCEPT !.change_set_iter = r.it],
              Some([release |-> 0, entry_path |-> Unwrap(r.out)]))
    ELSE ReleasesIter_advance(cl, [it EXCEPT !.change_set_iter = r.it])

\* the `while maybe_change_set_iter.is_none()` loop of next(), then self.next()
ReleasesIter_advance(cl, it) ==
    LET id == it.id + 1
        moved == [it EXCEPT !.id = id]
    IN IF Get(cl.releases, id) = NoneVal
       THEN Step(moved, NoneVal)
       ELSE LET maybe_change_set_iter == ChangeSetIter_new(cl, id)
            IN IF maybe_change_set_iter = NoneVal
               THEN ReleasesIter_advance(cl, moved)
               ELSE ReleasesIter_next(cl,
                        [moved EXCEPT !.change_set_iter = Unwrap(maybe_change_set_iter)])

\* yields (release, entry_path)
ReleasesIter_next(cl, it) ==
    IF Get(cl.releases, it.id) = NoneVal
    THEN Step(it, NoneVal)
    ELSE ReleasesIter_next_match(cl, it, ChangeSetIter_next(cl, it.change_set_iter))

\* the `match change_set_iter.next()` of next(), r being the result of that
\* call
ReleasesIter_next_match(cl, it, r) ==
    IF IsSome(r.out)
    THEN Step([it EXCEPT !.change_set_iter = r.it],
              Some([release |-> it.id, entry_path |-> Unwrap(r.out)]))
    ELSE ReleasesIter_advance(cl, [it EXCEPT !.change_set_iter = r.it])

\* ------------------------------------------------------------------------
\* ChangelogEntryIter
\* ------------------------------------------------------------------------

\* `let (release, entry_path) = releases_iter.next()?`, r being the result
\* of that call
next_entry_path_released_match(r) ==
    IF r.out = NoneVal THEN Step([tag |-> "Released", iter |-> r.it], NoneVal)
    ELSE Step([tag |-> "Released", iter |-> r.it],
              Some([tag |-> "Released", release |-> Unwrap(r.out).release,
                    change_set_path |-> Unwrap(r.out).entry_path]))

\* the ChangelogEntryIterState::Released arm of next_entry_path
next_entry_path_released(cl, releases_iter) ==
    next_entry_path_released_match(ReleasesIter_next(cl, releases_iter))

\* the `match change_set_iter.next()` of the Unreleased arm, r being the
\* result of that call
next_entry_path_unreleased_match(cl, r) ==
    IF IsSome(r.out)
    THEN Step([tag |-> "Unreleased", iter |-> r.it],
              Some([tag |-> "Unreleased", release |-> UnreleasedRef,
                    change_set_path |-> Unwrap(r.out)]))
    ELSE LET releases_iter == ReleasesIter_new(cl)
         IN IF releases_iter = NoneVal
            THEN Step([tag |-> "Unreleased", iter |-> r.it], NoneVal)
            ELSE next_entry_path_released(cl, Unwrap(releases_iter))

\* Faulty variant: an exhausted walk of the releases returns None and
\* rewinds to the first release.
next_entry_path_rewinding(cl, state) ==
    IF state.tag = "Empty" THEN Step(state, NoneVal)
    ELSE IF state.tag = "Unreleased"
    THEN next_entry_path_unreleased_match(cl, ChangeSetIter_next(cl, state.iter))
    ELSE IF Get(cl.releases, state.iter.id) = NoneVal
    THEN Step([tag |-> "Released", iter |-> Unwrap(ReleasesIter_new(cl))], NoneVal)
    ELSE next_entry_path_released(cl, state.iter)

\* ChangelogEntryIterState::next_entry_path
next_entry_path(cl, state) ==
    IF state.tag = "Empty" THEN Step(state, NoneVal)
    ELSE IF state.tag = "Unreleased"
    THEN next_entry_path_unreleased_match(cl, ChangeSetIter_next(cl, state.iter))
    ELSE next_entry_path_released(cl, state.iter)

\* Changelog::entries: the state of a fresh ChangelogEntryIter
entries(cl) ==
    LET change_set_iter ==
            IF cl.maybe_unreleased = NoneVal THEN NoneVal
            ELSE ChangeSetIter_new(cl, UnreleasedRef)
        releases_iter == ReleasesIter_new(cl)
    IN IF IsSome(change_set_iter)
       THEN [tag |-> "Unreleased", iter |-> Unwrap(change_set_iter)]
       ELSE IF IsSome(releases_iter)
       THEN [tag |-> "Released", iter |-> Unwrap(releases_iter)]
       ELSE [tag |-> "Empty", iter |-> NoneVal]

\* `next_entry_path(..)?` then `Some(EntryPath { changelog, release_path })`,
\* r being the result of next_entry_path
ChangelogEntryIter_wrap(r) ==
    IF r.out = NoneVal THEN Step(r.it, NoneVal)
    ELSE Step(r.it, Some([release_path |-> Unwrap(r.out)]))

\* ChangelogEntryIter::next: wraps the release path into an EntryPath
ChangelogEntryIter_next(cl, state) == ChangelogEntryIter_wrap(next_entry_path(cl, state))

RECURSIVE Collect(_, _)
RECURSIVE Collect_match(_, _)
\* Iterator::collect: every path an iterator in this state still yields
Collect(cl, state) == Collect_match(cl, ChangelogEntryIter_next(cl, state))

\* collect's loop body, r being the result of the next() call
Collect_match(cl, r) ==
    IF r.out = NoneVal THEN <<>> ELSE <<Unwrap(r.out)>> \o Collect(cl, r.it)

\* EntryPath::entry, through every level of the path
EntryPath_entry(cl, path) ==
    DerefEntry(cl, path.release_path.change_set_path.section_path.component_path.entry)

\* ------------------------------------------------------------------------
\* Equality of entry paths: #[derive(PartialEq)] over references compares
\* the referenced values, level by level.  ComponentSection,
\* ChangeSetSection, ChangeSet and Release compare field by field.
\*
\* The `==` of two entries is not defined in entry.rs, whose Entry derives
\* Debug and Clone only.  The entry that the paths refer to has a file name
\* (entry_path.rs reads entry.filename, the tests of component_section.rs
\* build Entry { filename, id, details }, and so does the data model of the
\* specification), and its equality compares the three fields.  The
\* changelog cl of the operators below is therefore a changelog whose
\* entries carry the names of their files.
\* ------------------------------------------------------------------------

\* entry_a == entry_b
Entry_eq(a, b) ==
    /\ a.filename = b.filename
    /\ a.id = b.id
    /\ a.details = b.details

\* Faulty variant: the entries are compared by id and details, their file
\* names are not.
ChangeSetComponentPath_eq_by_content(cl, a, b) ==
    /\ a.tag = b.tag
    /\ (a.tag = "Component" =>
            DerefComponent(cl, a.component_section).id = DerefComponent(cl, b.component_section).id)
    /\ DerefEntry(cl, a.entry).id = DerefEntry(cl, b.entry).id
    /\ DerefEntry(cl, a.entry).details = DerefEntry(cl, b.entry).details

ChangeSetComponentPath_eq(cl, a, b) ==
    /\ a.tag = b.tag
    /\ (a.tag = "Component" =>
            DerefComponent(cl, a.component_section) = DerefComponent(cl, b.component_section))
    /\ Entry_eq(DerefEntry(cl, a.entry), DerefEntry(cl, b.entry))

ChangeSetSectionPath_eq(cl, a, b) ==
    /\ DerefSection(cl, a.change_set_section) = DerefSection(cl, b.change_set_section)
    /\ ChangeSetComponentPath_eq(cl, a.component_path, b.component_path)

EntryChangeSetPath_eq(cl, a, b) ==
    /\ DerefChangeSet(cl, a.change_set) = DerefChangeSet(cl, b.change_set)
    /\ ChangeSetSectionPath_eq(cl, a.section_path, b.section_path)

EntryReleasePath_eq(cl, a, b) ==
    /\ a.tag = b.tag
    /\ (a.tag = "Released" => cl.releases[a.release + 1] = cl.releases[b.release + 1])
    /\ EntryChangeSetPath_eq(cl, a.change_set_path, b.change_set_path)

EntryPath_eq(cl, a, b) == EntryReleasePath_eq(cl, a.release_path, b.release_path)

\* ------------------------------------------------------------------------
\* Changelog::find_duplicates_across_releases
\* ------------------------------------------------------------------------

\* HashSet<(EntryPath, EntryPath)>::contains, with the derived Eq
already_found_contains(cl, already_found, a, b) ==
    \E p \in already_found : EntryPath_eq(cl, p[1], a) /\ EntryPath_eq(cl, p[2], b)

RECURSIVE find_duplicates_loop(_, _, _, _, _)
\* The two nested `for` loops over self.entries(); k counts the iterations
\* of the inner body so far.  cl carries the file names of its entries.
find_duplicates_loop(cl, paths, k, dups, already_found) ==
    IF k >= Len(paths) * Len(paths) THEN dups
    ELSE LET path_a == paths[(k \div Len(paths)) + 1]
             path_b == paths[(k % Len(paths)) + 1]
         IN IF EntryPath_eq(cl, path_a, path_b)
            THEN find_duplicates_loop(cl, paths, k + 1, dups, already_found)
            ELSE IF Entry_eq(EntryPath_entry(cl, path_a), EntryPath_entry(cl, path_b))
                    /\ ~already_found_contains(cl, already_found, path_a, path_b)
            THEN find_duplicates_loop(cl, paths, k + 1,
                     Append(dups, <<path_a, path_b>>),
                     already_found \cup {<<path_a, path_b>>, <<path_b, path_a>>})
            ELSE find_duplicates_loop(cl, paths, k + 1, dups, already_found)

find_duplicates_across_releases(cl) ==
    find_duplicates_loop(cl, Collect(cl, entries(cl)), 0, <<>>, {})

\* ------------------------------------------------------------------------
\* Rendering.  A text is the sequence of the pieces that split('\n') gives:
\* the empty string is one empty piece, and "a\n" is the piece a followed by
\* one empty piece.  A piece records what it is, its indent and its text.
\* The text of a piece of kind "component" or "general" follows the bullet
\* and a space, that of a "release" follows "## " and that of a "section"
\* follows "### ": such a piece is a line with text also when its own text
\* is empty.
\* ------------------------------------------------------------------------

Piece(kind, indent, text) == [kind |-> kind, indent |-> indent, text |-> text]

EmptyPiece == Piece("blank", 0, "")

\* a one-line string that is pushed as it is, or the empty string
Text(kind, indent, text) == IF text = "" THEN <<EmptyPiece>> ELSE <<Piece(kind, indent, text)>>

RECURSIVE JoinWith(_, _)
\* [String]::join(sep), sep being "\n" (no piece) or "\n\n" (one empty piece)
JoinWith(texts, sep) ==
    IF texts = <<>> THEN <<EmptyPiece>>
    ELSE IF Len(texts) = 1 THEN texts[1]
    ELSE texts[1] \o sep \o JoinWith(Tail(texts), sep)

JoinLines(texts) == JoinWith(texts, <<>>)

JoinParagraphs(texts) == JoinWith(texts, <<EmptyPiece>>)

RECURSIVE Flatten(_)
\* Iterator::flat_map / Vec::extend over a sequence of sequences
Flatten(ss) == IF ss = <<>> THEN <<>> ELSE ss[1] \o Flatten(Tail(ss))

\* Config::default
DefaultConfig ==
    [heading |-> "# CHANGELOG",
     empty_msg |-> "Nothing to see here! Add some entries to get started.",
     bullet_style |-> "-",
     unreleased |-> [folder |-> "unreleased", heading |-> "## Unreleased"],
     prologue_filename |-> "prologue.md",
     epilogue_filename |-> "epilogue.md",
     change_sets |-> [summary_filename |-> "summary.md", entry_ext |-> "md"],
     change_set_sections |-> [sort_entries_by |-> "id"],
     components |-> [general_entries_title |-> "General", entry_indent |-> 2, all |-> <<>>],
     sort_releases_by |-> <<"Version">>]

\* The configuration of this model: Config::default() with the components
\* of DeclaredComponents declared.
ModelConfig == [DefaultConfig EXCEPT !.components.all = DeclaredComponents]

indent_bulleted_pieces(ls) ==
    [k \in 1..Len(ls) |-> Piece("entry", ls[k].indent, Str(ls[k].text))]

\* indent_bulleted_str: one piece per line of s
indent_bulleted_str(s, indent, overflow_indent) ==
    indent_bulleted_pieces(indent_bulleted_chars(Chars(s), indent, overflow_indent))

\* indent_entries: one string per line of every entry
indent_entries(es, indent, overflow_indent) ==
    [k \in 1..Len(es) |-> indent_bulleted_str(es[k].details, indent, overflow_indent)]

\* The panic of a u8 addition that overflows in a build with overflow
\* checks (the default of a debug build); a build without them wraps.  A
\* function that returns a String and panics gives PanicOverflow in place
\* of its text, and one that returns a Result gives PanicOverflowResult.
PanicOverflow == <<Piece("panic", 0, "attempt to add with overflow")>>

PanicOverflowResult == Err("panic: attempt to add with overflow")

IsPanic(text) == Len(text) = 1 /\ text[1].kind = "panic"

\* a panic while one of the texts was being built
AnyPanic(texts) == \E k \in 1..Len(texts) : IsPanic(texts[k])

\* lines.join("\n"), unless building a line has panicked
JoinLinesOrPanic(texts) == IF AnyPanic(texts) THEN PanicOverflow ELSE JoinLines(texts)

\* paragraphs.join("\n\n"), unless building a paragraph has panicked
JoinParagraphsOrPanic(texts) ==
    IF AnyPanic(texts) THEN PanicOverflow ELSE JoinParagraphs(texts)

\* indent_entries(&entries, entry_indent, entry_indent + 2): the u8 sum is
\* evaluated before the call
indent_entries_plus_2(es, entry_indent, overflow_checks) ==
    IF overflow_checks /\ U8_add_overflows(entry_indent, 2) THEN <<PanicOverflow>>
    ELSE indent_entries(es, entry_indent, U8_wrapping_add(entry_indent, 2))

\* the name of a component section: a Markdown hyperlink when the component
\* has a path
ComponentSection_render_name(cs) ==
    IF IsSome(cs.maybe_path)
    THEN "[" \o cs.name \o "](" \o Unwrap(cs.maybe_path) \o ")"
    ELSE cs.name

\* ComponentSection::render
ComponentSection_render(cs, config, overflow_checks) ==
    JoinLinesOrPanic(
        <<(<<Piece("component", 0, ComponentSection_render_name(cs))>>)>>
        \o indent_entries_plus_2(cs.entries, config.components.entry_indent,
                                 overflow_checks))

\* format!("### {}\n\n{}", self.title, lines.join("\n"))
ChangeSetSection_render_format(s, lines) ==
    IF AnyPanic(lines) THEN PanicOverflow
    ELSE <<Piece("section", 0, s.title), EmptyPiece>> \o JoinLines(lines)

\* ChangeSetSection::render
ChangeSetSection_render(s, config, overflow_checks) ==
    ChangeSetSection_render_format(s,
        IF s.component_sections = <<>>
        THEN [k \in 1..Len(s.entries) |-> Text("entry", 0, s.entries[k].details)]
        ELSE (IF s.entries # <<>>
              THEN <<(<<Piece("general", 0, config.components.general_entries_title)>>)>>
                   \o indent_entries_plus_2(s.entries, config.components.entry_indent,
                                            overflow_checks)
              ELSE <<>>)
             \o [c \in 1..Len(s.component_sections) |->
                    ComponentSection_render(s.component_sections[c], config,
                                            overflow_checks)])

\* the sections that ChangeSet::render keeps
ChangeSet_render_sections(cs) ==
    SelectSeq(cs.sections, LAMBDA s : ~ChangeSetSection_is_empty(s))

\* ChangeSet::render
ChangeSet_render(cs, config, overflow_checks) ==
    JoinParagraphsOrPanic(
        (IF IsSome(cs.maybe_summary)
         THEN <<Text("summary", 0, Unwrap(cs.maybe_summary))>> ELSE <<>>)
        \o [j \in 1..Len(ChangeSet_render_sections(cs)) |->
               ChangeSetSection_render(ChangeSet_render_sections(cs)[j], config,
                                       overflow_checks)])

\* Release::render
Release_render(r, config, overflow_checks) ==
    JoinParagraphsOrPanic(
        <<(<<Piece("release", 0, r.id)>>)>>
        \o (IF ~ChangeSet_is_empty(r.changes)
            THEN <<ChangeSet_render(r.changes, config, overflow_checks)>> ELSE <<>>))

\* the Ok(vec![heading, unreleased.render(config)]) of unreleased_paragraphs
unreleased_paragraphs_ok(paragraphs) ==
    IF AnyPanic(paragraphs) THEN PanicOverflowResult ELSE Ok(paragraphs)

\* unreleased_paragraphs without the emptiness test
unreleased_paragraphs_unchecked(cl, config, overflow_checks) ==
    IF IsSome(cl.maybe_unreleased)
    THEN unreleased_paragraphs_ok(
             <<Text("unreleased", 0, config.unreleased.heading),
               ChangeSet_render(Unwrap(cl.maybe_unreleased), config, overflow_checks)>>)
    ELSE Err("NoUnreleasedEntries")

\* Changelog::unreleased_paragraphs: Ok(paragraphs) or Err(NoUnreleasedEntries)
unreleased_paragraphs(cl, config, overflow_checks) ==
    IF IsSome(cl.maybe_unreleased) /\ ~ChangeSet_is_empty(Unwrap(cl.maybe_unreleased))
    THEN unreleased_paragraphs_ok(
             <<Text("unreleased", 0, config.unreleased.heading),
               ChangeSet_render(Unwrap(cl.maybe_unreleased), config, overflow_checks)>>)
    ELSE Err("NoUnreleasedEntries")

\* `if let Ok(unreleased_paragraphs) = ... { paragraphs.extend(...) }`
Changelog_render_unreleased_part(r) ==
    IF r.ok THEN r.value
    ELSE IF r = PanicOverflowResult THEN <<PanicOverflow>>
    ELSE <<>>

\* the paragraphs of a changelog that is not empty
Changelog_render_paragraphs(cl, config, render_unreleased, overflow_checks) ==
    (IF IsSome(cl.prologue)
     THEN <<Text("prologue", 0, Unwrap(cl.prologue))>> ELSE <<>>)
    \o (IF render_unreleased
        THEN Changelog_render_unreleased_part(
                 unreleased_paragraphs(cl, config, overflow_checks))
        ELSE <<>>)
    \o [i \in 1..Len(cl.releases) |-> Release_render(cl.releases[i], config, overflow_checks)]
    \o (IF IsSome(cl.epilogue)
        THEN <<Text("epilogue", 0, Unwrap(cl.epilogue))>> ELSE <<>>)

\* format!("{}\n", paragraphs.join("\n\n"))
Changelog_render_format(paragraphs) ==
    IF AnyPanic(paragraphs) THEN PanicOverflow
    ELSE JoinParagraphs(paragraphs) \o <<EmptyPiece>>

\* Changelog::render without the emptiness test
Changelog_render_unchecked(cl, config, render_unreleased, overflow_checks) ==
    Changelog_render_format(
        <<Text("heading", 0, config.heading)>>
        \o Changelog_render_paragraphs(cl, config, render_unreleased, overflow_checks))

\* Changelog::render
Changelog_render(cl, config, render_unreleased, overflow_checks) ==
    Changelog_render_format(
        <<Text("heading", 0, config.heading)>>
        \o (IF Changelog_is_empty(cl)
            THEN <<Text("empty_msg", 0, config.empty_msg)>>
            ELSE Changelog_render_paragraphs(cl, config, render_unreleased,
                                             overflow_checks)))

\* Changelog::render_all
render_all(cl, config, overflow_checks) == Changelog_render(cl, config, TRUE, overflow_checks)

\* Changelog::render_released
render_released(cl, config, overflow_checks) ==
    Changelog_render(cl, config, FALSE, overflow_checks)

\* ------------------------------------------------------------------------
\* Loading and sorting the releases (Changelog::read_from_dir)
\* ------------------------------------------------------------------------

\* Ord::cmp of two triples compared field by field: semver::Version
\* (major, minor, patch) and chrono::NaiveDate (year, month, day).
TripleCmp(a, b) ==
    IF a[1] # b[1] THEN (IF a[1] < b[1] THEN "Less" ELSE "Greater")
    ELSE IF a[2] # b[2] THEN (IF a[2] < b[2] THEN "Less" ELSE "Greater")
    ELSE IF a[3] # b[3] THEN (IF a[3] < b[3] THEN "Less" ELSE "Greater")
    ELSE "Equal"

\* Faulty variant: the ordering is passed through unreversed.
Reverse_dropped(o) == o

\* Ordering::reverse
Reverse(o) == IF o = "Less" THEN "Greater" ELSE IF o = "Greater" THEN "Less" ELSE "Equal"

\* First lines of summary files and the date that the format "%F" parses
\* from each; any other first line parses to no date.
DateTexts == <<"2023-01-01", "2023-06-30">>

DateValues == <<(<<2023, 1, 1>>), (<<2023, 6, 30>>)>>

\* NaiveDate::parse_from_str over config.release_date_formats
ParseDate(line) ==
    IF \E k \in 1..Len(DateTexts) : DateTexts[k] = line
    THEN Some(DateValues[CHOOSE k \in 1..Len(DateTexts) : DateTexts[k] = line])
    ELSE NoneVal

\* Version::parse(extract_release_version(id)) for the release directory names
ParseVersion(id) == ReleaseVersions[CHOOSE k \in 1..Len(ReleaseIds) : ReleaseIds[k] = id]

\* Release::read_from_dir on a release directory [name, summary]; the
\* directory holds no sections.
Release_read_from_dir(dir) ==
    [id |-> dir.name,
     version |-> ParseVersion(dir.name),
     maybe_date |-> IF dir.summary = NoneVal THEN NoneVal ELSE ParseDate(Unwrap(dir.summary)),
     changes |-> ChangeSet(dir.summary, <<>>)]

\* Option<NaiveDate>::cmp: None sorts before every Some
OptionDateCmp(a, b) ==
    IF a = NoneVal /\ b = NoneVal THEN "Equal"
    ELSE IF a = NoneVal THEN "Less"
    ELSE IF b = NoneVal THEN "Greater"
    ELSE TripleCmp(Unwrap(a), Unwrap(b))

\* the SortReleasesBy::Version arm: None stands for `continue`
cmp_by_version(a, b) ==
    IF a.version = b.version THEN NoneVal
    ELSE Some(Reverse(TripleCmp(a.version, b.version)))

\* Faulty variant of the Date arm: a missing date is compared as an
\* Option instead of being skipped.
cmp_by_date_unskipped(a, b) ==
    IF a.maybe_date = b.maybe_date THEN NoneVal
    ELSE Some(Reverse(OptionDateCmp(a.maybe_date, b.maybe_date)))

\* the SortReleasesBy::Date arm: None stands for `continue`
cmp_by_date(a, b) ==
    IF a.maybe_date = NoneVal \/ b.maybe_date = NoneVal THEN NoneVal
    ELSE IF a.maybe_date = b.maybe_date THEN NoneVal
    ELSE Some(Reverse(OptionDateCmp(a.maybe_date, b.maybe_date)))

RECURSIVE release_cmp_from(_, _, _, _)
\* the `for sort_by in &config.sort_releases_by.0` loop of the comparator,
\* from the k-th criterion on, and the fall-back after the loop
release_cmp_from(sort_releases_by, k, a, b) ==
    IF k > Len(sort_releases_by) THEN Reverse(TripleCmp(a.version, b.version))
    ELSE LET decided == IF sort_releases_by[k] = "Version" THEN cmp_by_version(a, b)
                        ELSE cmp_by_date(a, b)
         IN IF decided = NoneVal THEN release_cmp_from(sort_releases_by, k + 1, a, b)
            ELSE Unwrap(decided)

\* the closure given to releases.sort_by
release_cmp(sort_releases_by, a, b) == release_cmp_from(sort_releases_by, 1, a, b)

RECURSIVE InsertTail(_, _, _)
\* insert x into the sorted run v, scanning from its tail while x is less
InsertTail(sort_releases_by, v, x) ==
    IF v # <<>> /\ release_cmp(sort_releases_by, x, v[Len(v)]) = "Less"
    THEN Append(InsertTail(sort_releases_by, SubSeq(v, 1, Len(v) - 1), x), v[Len(v)])
    ELSE Append(v, x)

RECURSIVE InsertHead(_, _, _)
\* insert x into the sorted run v, scanning from its head while the head is
\* less: insert_head of the merge sort of earlier std releases, which a
\* current std does not take (it inserts from the tail, InsertTail)
InsertHead(sort_releases_by, x, v) ==
    IF v # <<>> /\ release_cmp(sort_releases_by, v[1], x) = "Less"
    THEN <<v[1]>> \o InsertHead(sort_releases_by, x, Tail(v))
    ELSE <<x>> \o v

RECURSIVE SortTail(_, _)
SortTail(sort_releases_by, v) ==
    IF v = <<>> THEN <<>>
    ELSE InsertTail(sort_releases_by,
                    SortTail(sort_releases_by, SubSeq(v, 1, Len(v) - 1)), v[Len(v)])

RECURSIVE SortHead(_, _)
SortHead(sort_releases_by, v) ==
    IF v = <<>> THEN <<>>
    ELSE InsertHead(sort_releases_by, v[1], SortHead(sort_releases_by, Tail(v)))

\* The builds of slice::sort_by for a short slice: an insertion sort that
\* grows the sorted run from the left ("tail", a current std) or from the
\* right ("head", earlier std releases).  The comparator of the releases is
\* not a total order, for which slice::sort_by leaves the order unspecified,
\* so the two builds can give different orders.
SortImpls == {"tail", "head"}

\* releases.sort_by(...)
sort_releases(impl, sort_releases_by, v) ==
    IF impl = "tail" THEN SortTail(sort_releases_by, v) ELSE SortHead(sort_releases_by, v)

\* Changelog::read_from_dir on a root with the given release directories
\* (in the order read_and_filter_dir lists them), no unreleased folder, no
\* prologue and no epilogue
read_from_dir(impl, cfg, dirs) ==
    Changelog(NoneVal,
              sort_releases(impl, cfg.sort_releases_by,
                            [k \in 1..Len(dirs) |-> Release_read_from_dir(dirs[k])]),
              NoneVal, NoneVal)

\* ------------------------------------------------------------------------
\* State
\* ------------------------------------------------------------------------

VARIABLES
    input,          \* the argument of the operation under study: the changelog
                    \* directory on disk, or the text given to a text function
    release_dirs,   \* the release directories [name, summary] of the root, in
                    \* the order the directory listing gives them
    config,         \* the Config in use
    sort_impl,      \* the build of slice::sort_by in use
    changelog,      \* Option<Changelog>: the loaded changelog
    iters,          \* per iterator: Option<ChangelogEntryIterState>
    yielded,        \* per iterator: the paths its next() calls returned
    ended,          \* per iterator: whether a next() call has returned None
    result          \* the operation last applied to the changelog and its value

vars == <<input, release_dirs, config, sort_impl, changelog, iters, yielded, ended, result>>

IterIds == 1..NumIters

NoIters ==
    /\ iters = [i \in IterIds |-> NoneVal]
    /\ yielded = [i \in IterIds |-> <<>>]
    /\ ended = [i \in IterIds |-> FALSE]
    /\ result = [op |-> "none", value |-> <<>>]

\* The listing that a loaded release came from.
DirOf(release) == [name |-> release.id, summary |-> release.changes.maybe_summary]

\* A changelog has been loaded from a directory tree of bounded weight.
InitLoaded(weight) ==
    /\ \E cl \in Changelogs(weight) :
          /\ changelog = Some(cl)
          /\ release_dirs = [k \in 1..Len(cl.releases) |-> DirOf(cl.releases[k])]
    /\ input = NoneVal
    /\ config = ModelConfig
    /\ sort_impl = "tail"
    /\ NoIters

Init == InitLoaded(MaxWeight)

\* ------------------------------------------------------------------------
\* Operations on a loaded changelog
\* ------------------------------------------------------------------------

\* let it = changelog.entries();
CallEntries(i) ==
    /\ IsSome(changelog)
    /\ iters' = [iters EXCEPT ![i] = Some(entries(Unwrap(changelog)))]
    /\ yielded' = [yielded EXCEPT ![i] = <<>>]
    /\ ended' = [ended EXCEPT ![i] = FALSE]
    /\ UNCHANGED <<input, release_dirs, config, sort_impl, changelog, result>>

\* Faulty variant: all live iterators share one ChangelogEntryIterState.
IterMoved_shared(its, i, st) ==
    [j \in DOMAIN its |-> IF IsSome(its[j]) THEN Some(st) ELSE its[j]]

\* The iterators after iterator i has moved to state st: each
\* ChangelogEntryIter owns its state.
IterMoved(its, i, st) == [its EXCEPT ![i] = Some(st)]

\* it.next()
CallNext(i) ==
    /\ IsSome(changelog)
    /\ IsSome(iters[i])
    /\ LET r == ChangelogEntryIter_next(Unwrap(changelog), Unwrap(iters[i]))
       IN /\ iters' = IterMoved(iters, i, r.it)
          /\ yielded' = [yielded EXCEPT ![i] = IF IsSome(r.out) THEN Append(@, Unwrap(r.out))
                                                 ELSE @]
          /\ ended' = [ended EXCEPT ![i] = @ \/ r.out = NoneVal]
    /\ UNCHANGED <<input, release_dirs, config, sort_impl, changelog, result>>

\* changelog.find_duplicates_across_releases()
CallFindDuplicates ==
    /\ IsSome(changelog)
    /\ result' = [op |-> "find_duplicates",
                  value |-> find_duplicates_across_releases(
                                MkChangelog_with_filenames(Unwrap(changelog)))]
    /\ UNCHANGED <<input, release_dirs, config, sort_impl, changelog, iters, yielded, ended>>

\* changelog.render_all(&config)
CallRenderAll ==
    /\ IsSome(changelog)
    /\ \E overflow_checks \in BOOLEAN :
          result' = [op |-> "render_all",
                     value |-> render_all(Unwrap(changelog), config, overflow_checks)]
    /\ UNCHANGED <<input, release_dirs, config, sort_impl, changelog, iters, yielded, ended>>

\* changelog.render_released(&config)
CallRenderReleased ==
    /\ IsSome(changelog)
    /\ \E overflow_checks \in BOOLEAN :
          result' = [op |-> "render_released",
                     value |-> render_released(Unwrap(changelog), config, overflow_checks)]
    /\ UNCHANGED <<input, release_dirs, config, sort_impl, changelog, iters, yielded, ended>>

\* One iterator walks the changelog, and the whole-changelog operations are
\* applied to it.
Next ==
    \/ CallEntries(1)
    \/ CallNext(1)
    \/ CallFindDuplicates
    \/ CallRenderAll
    \/ CallRenderReleased

Spec == Init /\ [][Next]_vars

\* Several iterators walk one changelog, their next() calls interleaved.
InitIters == InitLoaded(MaxItersWeight)

NextIters ==
    \/ \E i \in IterIds : CallEntries(i)
    \/ \E i \in IterIds : CallNext(i)

SpecIters == InitIters /\ [][NextIters]_vars

\* ------------------------------------------------------------------------
\* Loading: the release directories of a root, listed in some order, are
\* read and sorted under some configuration.
\* ------------------------------------------------------------------------

ReleaseDirNames == { ReleaseIds[k] : k \in 1..MaxReleaseDirs }

SummaryTexts == {NoneVal, Some("summary")} \cup { Some(DateTexts[k]) : k \in 1..Len(DateTexts) }

\* Every listing of distinct release directories.
ReleaseDirListings ==
    UNION { { l \in [1..n -> [name : ReleaseDirNames, summary : SummaryTexts]] :
                \A a, b \in 1..n : a # b => l[a].name # l[b].name } :
            n \in 0..MaxReleaseDirs }

SortCriteriaLists ==
    {<<>>, <<"Version">>, <<"Date">>, <<"Date", "Version">>, <<"Version", "Date">>}

InitSort ==
    /\ input = NoneVal
    /\ release_dirs \in ReleaseDirListings
    /\ \E c \in SortCriteriaLists : config = [DefaultConfig EXCEPT !.sort_releases_by = c]
    /\ sort_impl \in SortImpls
    /\ changelog = NoneVal
    /\ NoIters

\* Changelog::read_from_dir(&config, root)
CallReadFromDir ==
    /\ changelog = NoneVal
    /\ changelog' = Some(read_from_dir(sort_impl, config, release_dirs))
    /\ UNCHANGED <<input, release_dirs, config, sort_impl, iters, yielded, ended, result>>

NextSort ==
    \/ CallReadFromDir
    \/ CallRenderAll

SpecSort == InitSort /\ [][NextSort]_vars

\* ------------------------------------------------------------------------
\* The document order of a changelog, read off the tree
\* ------------------------------------------------------------------------

\* The entry positions of one section: general entries, then each component
\* section in order.
SectionEntryRefs(cl, cs, sec) ==
    LET s == DerefSection(cl, SectionRef(cs, sec))
    IN [e \in 1..Len(s.entries) |-> EntryRef(cs, sec, 0 - 1, e - 1)]
       \o Flatten([c \in 1..Len(s.component_sections) |->
                      [e \in 1..Len(s.component_sections[c].entries) |->
                          EntryRef(cs, sec, c - 1, e - 1)]])

\* The entry positions of one change set, section by section.
ChangeSetEntryRefs(cl, cs) ==
    Flatten([j \in 1..Len(DerefChangeSet(cl, cs).sections) |-> SectionEntryRefs(cl, cs, j - 1)])

\* The entry positions of a changelog: unreleased first, then each release.
ChangelogEntryRefs(cl) ==
    (IF IsSome(cl.maybe_unreleased) THEN ChangeSetEntryRefs(cl, UnreleasedRef) ELSE <<>>)
    \o Flatten([i \in 1..Len(cl.releases) |-> ChangeSetEntryRefs(cl, i - 1)])

\* The EntryPath that addresses an entry position.
PathOf(r) ==
    [release_path |->
        [tag |-> IF r.cs = UnreleasedRef THEN "Unreleased" ELSE "Released",
         release |-> r.cs,
         change_set_path |->
            [change_set |-> r.cs,
             section_path |->
                [change_set_section |-> SectionRef(r.cs, r.sec),
                 component_path |->
                    [tag |-> IF r.comp = 0 - 1 THEN "General" ELSE "Component",
                     component_section |-> ComponentRef(r.cs, r.sec, r.comp),
                     entry |-> r]]]]]

PathsOf(refs) == [k \in 1..Len(refs) |-> PathOf(refs[k])]

\* The position an EntryPath names, level by level.
PathPos(p) ==
    LET rp == p.release_path
        sp == rp.change_set_path.section_path
    IN <<(IF rp.tag = "Unreleased" THEN 0 - 1 ELSE rp.release),
         sp.change_set_section.sec,
         (IF sp.component_path.tag = "General" THEN 0 - 1 ELSE sp.component_path.component_section.comp),
         sp.component_path.entry.ent>>

\* Lexicographic order of positions: the order in which they are rendered.
PosLess(a, b) ==
    \E k \in 1..4 : a[k] < b[k] /\ \A j \in 1..(k - 1) : a[j] = b[j]

\* The paths of a sequence that lie in change set cs.
InChangeSet(paths, cs) ==
    SelectSeq(paths, LAMBDA p : PathPos(p)[1] = cs)

DetailsOf(cl, paths) == [k \in 1..Len(paths) |-> EntryPath_entry(cl, paths[k]).details]

\* The entry texts of a rendered document, in order.
RenderedEntryDetails(text) ==
    LET es == SelectSeq(text, LAMBDA piece : piece.kind = "entry")
    IN [k \in 1..Len(es) |-> es[k].text]

RECURSIVE CollectChangeSet(_, _)
\* Every path a ChangeSetIter in this state still yields.
CollectChangeSet(cl, it) ==
    LET r == ChangeSetIter_next(cl, it)
    IN IF r.out = NoneVal THEN <<>> ELSE <<Unwrap(r.out)>> \o CollectChangeSet(cl, r.it)

\* What iterating change set cs alone yields, as EntryPaths of the changelog.
ChangeSetYield(cl, cs) ==
    LET it == ChangeSetIter_new(cl, cs)
        ps == IF it = NoneVal THEN <<>> ELSE CollectChangeSet(cl, Unwrap(it))
    IN [k \in 1..Len(ps) |->
           [release_path |-> [tag |-> IF cs = UnreleasedRef THEN "Unreleased" ELSE "Released",
                              release |-> cs, change_set_path |-> ps[k]]]]

Loaded == Unwrap(changelog)

\* ------------------------------------------------------------------------
\* Properties
\* ------------------------------------------------------------------------

\* C1: the entry texts that an exhausted entries() iterator has yielded are,
\* in order, the entry texts that render_all emits.
C1_TraversalMatchesRender ==
    \A i \in IterIds :
        (ended[i] /\ result.op = "render_all")
            => DetailsOf(Loaded, yielded[i]) = RenderedEntryDetails(result.value)

\* C2: iterating a change set (here the unreleased one, walked by the
\* ChangeSetIter that entries() builds) yields every entry of every section
\* exactly once, in order, wherever its empty sections are.
C2_ChangeSetIterYieldsEveryEntry ==
    \A i \in IterIds :
        ended[i]
            => InChangeSet(yielded[i], UnreleasedRef)
                 = (IF IsSome(Loaded.maybe_unreleased)
                    THEN PathsOf(ChangeSetEntryRefs(Loaded, UnreleasedRef)) ELSE <<>>)

\* C3: an exhausted entries() iterator has yielded, for every release, the
\* entries that the release's change set yields when iterated alone,
\* wherever the entry-less releases are and whatever the unreleased change
\* set is.
C3_EveryReleaseIsWalked ==
    \A i \in IterIds :
        ended[i]
            => \A r \in 0..(Len(Loaded.releases) - 1) :
                  InChangeSet(yielded[i], r) = ChangeSetYield(Loaded, r)

\* C4: the paths an iterator yields are in strictly increasing document
\* position: unreleased before released, releases in `releases` order,
\* sections in `sections` order, general before component entries, component
\* sections in `component_sections` order, entries in stored order.
C4_YieldedInDocumentOrder ==
    \A i \in IterIds :
        \A k \in 1..(Len(yielded[i]) - 1) :
            PosLess(PathPos(yielded[i][k]), PathPos(yielded[i][k + 1]))

\* An exhausted iterator has yielded an unreleased general entry and then a
\* released component entry.
C4_Witness ==
    \E i \in IterIds :
        /\ ended[i]
        /\ \E k \in 1..(Len(yielded[i]) - 1) :
              /\ yielded[i][k].release_path.tag = "Unreleased"
              /\ PathPos(yielded[i][k])[3] = 0 - 1
              /\ yielded[i][k + 1].release_path.tag = "Released"
              /\ PathPos(yielded[i][k + 1])[3] >= 0

\* C5: under every interleaving of next() calls, what an iterator has
\* yielded followed by what it still yields when run alone is the sequence a
\* fresh entries() iterator yields when run alone; a fresh iterator has
\* yielded nothing; and no step changes the loaded changelog.
C5_IteratorsIndependent ==
    /\ [](\A i \in IterIds :
            IsSome(iters[i])
               => yielded[i] \o Collect(Loaded, Unwrap(iters[i]))
                    = Collect(Loaded, entries(Loaded)))
    /\ [][changelog' = changelog]_vars

\* Two iterators over one changelog stand at different positions: one has
\* yielded two paths, the other is fresh and has paths to yield.
C5_Witness ==
    \E i, j \in IterIds :
        /\ i # j
        /\ IsSome(iters[i]) /\ Len(yielded[i]) >= 2
        /\ IsSome(iters[j]) /\ yielded[j] = <<>>
        /\ Collect(Loaded, Unwrap(iters[j])) # <<>>

\* C6: find_duplicates_across_releases returns exactly one pair for each
\* unordered pair of distinct entry positions with identical details, and
\* nothing else.
C6_DuplicatesExactlyOnce ==
    result.op = "find_duplicates"
        => LET refs == ChangelogEntryRefs(Loaded)
               dups == result.value
               Same(a, b) == DerefEntry(Loaded, a).details = DerefEntry(Loaded, b).details
               Reports(k, a, b) == dups[k] = <<PathOf(a), PathOf(b)>>
                                   \/ dups[k] = <<PathOf(b), PathOf(a)>>
           IN /\ \A x, y \in 1..Len(refs) :
                    (x < y /\ Same(refs[x], refs[y]))
                       => Cardinality({ k \in 1..Len(dups) : Reports(k, refs[x], refs[y]) }) = 1
              /\ \A k \in 1..Len(dups) :
                    \E x, y \in 1..Len(refs) :
                        x # y /\ Same(refs[x], refs[y]) /\ dups[k] = <<PathOf(refs[x]), PathOf(refs[y])>>

\* ------------------------------------------------------------------------
\* Properties of the release sort
\* ------------------------------------------------------------------------

\* The precedence of a version, as one number.
VersionKey(v) == v[1] * 1000000 + v[2] * 1000 + v[3]

\* The calendar position of a date, as one number.
DateKey(d) == d[1] * 10000 + d[2] * 100 + d[3]

\* C7: with the default configuration the loaded releases are in descending
\* version order, whatever the order of the directory listing.
C7_ReleasesDescendByVersion ==
    (IsSome(changelog) /\ config = DefaultConfig)
        => \A i, j \in 1..Len(Loaded.releases) :
              i < j => VersionKey(Loaded.releases[i].version)
                         >= VersionKey(Loaded.releases[j].version)

\* Three releases listed oldest first have been loaded with the default
\* configuration.
C7_Witness ==
    /\ IsSome(changelog) /\ config = DefaultConfig
    /\ Len(release_dirs) = 3
    /\ \A k \in 1..2 : VersionKey(ParseVersion(release_dirs[k].name))
                         < VersionKey(ParseVersion(release_dirs[k + 1].name))

\* What one criterion reports for two releases: "Equal" when it does not
\* decide, else the descending order of its key.
CriterionReports(criterion, a, b) ==
    IF criterion = "Version"
    THEN IF VersionKey(a.version) = VersionKey(b.version) THEN "Equal"
         ELSE IF VersionKey(a.version) > VersionKey(b.version) THEN "Less" ELSE "Greater"
    ELSE IF a.maybe_date = NoneVal \/ b.maybe_date = NoneVal THEN "Equal"
         ELSE IF DateKey(Unwrap(a.maybe_date)) = DateKey(Unwrap(b.maybe_date)) THEN "Equal"
         ELSE IF DateKey(Unwrap(a.maybe_date)) > DateKey(Unwrap(b.maybe_date)) THEN "Less"
         ELSE "Greater"

\* C8: the comparison of two loaded releases is what the first criterion
\* that does not report equal reports, and version descending when none
\* does; with criteria [date, version] a release without a date and one with
\* a date end up ordered by version, higher first.
C8_FirstDecidingCriterion ==
    IsSome(changelog)
        => LET rs == Loaded.releases
               crit == config.sort_releases_by
               Deciding(a, b) == { k \in 1..Len(crit) : CriterionReports(crit[k], a, b) # "Equal" }
               First(a, b) == CHOOSE k \in Deciding(a, b) : \A m \in Deciding(a, b) : k <= m
           IN /\ \A x, y \in 1..Len(rs) :
                    release_cmp(crit, rs[x], rs[y])
                      = IF Deciding(rs[x], rs[y]) # {}
                        THEN CriterionReports(crit[First(rs[x], rs[y])], rs[x], rs[y])
                        ELSE CriterionReports("Version", rs[x], rs[y])
              /\ (crit = <<"Date", "Version">> /\ Len(rs) = 2
                  /\ (rs[1].maybe_date = NoneVal) # (rs[2].maybe_date = NoneVal))
                    => VersionKey(rs[1].version) > VersionKey(rs[2].version)

\* v0.1.0 without a date and v0.2.0 dated 2023-01-01, listed in that order,
\* have been loaded with criteria [date, version].
C8_Witness ==
    /\ IsSome(changelog)
    /\ config.sort_releases_by = <<"Date", "Version">>
    /\ release_dirs = <<[name |-> "v0.1.0", summary |-> Some("summary")],
                        [name |-> "v0.2.0", summary |-> Some("2023-01-01")]>>
    /\ Loaded.releases[1].id = "v0.2.0"

\* C9: with the date criterion first, any two loaded releases that both have
\* a date and whose dates differ appear with the later date first.
C9_DatedReleasesDescendByDate ==
    (IsSome(changelog) /\ config.sort_releases_by # <<>> /\ config.sort_releases_by[1] = "Date")
        => \A i, j \in 1..Len(Loaded.releases) :
              (i < j /\ IsSome(Loaded.releases[i].maybe_date)
                     /\ IsSome(Loaded.releases[j].maybe_date)
                     /\ Loaded.releases[i].maybe_date # Loaded.releases[j].maybe_date)
                => DateKey(Unwrap(Loaded.releases[i].maybe_date))
                     > DateKey(Unwrap(Loaded.releases[j].maybe_date))

\* Every order in which a listing can enumerate the same directories.
Listings(dirs) ==
    { [k \in 1..Len(dirs) |-> dirs[f[k]]] :
        f \in { g \in [1..Len(dirs) -> 1..Len(dirs)] :
                  \A a, b \in 1..Len(dirs) : a # b => g[a] # g[b] } }

\* C10: the loaded order of the releases is the same for every order in
\* which the release directories are listed.
C10_LoadOrderIndependent ==
    IsSome(changelog)
        => \A l \in Listings(release_dirs) :
              read_from_dir(sort_impl, config, l).releases = Loaded.releases

\* -------------------------------------------------------------------------
\* The text functions applied to bounded inputs
\* -------------------------------------------------------------------------

MaxStemLen == 3

MaxTextLen == 4

RECURSIVE SeqsUpTo(_, _)
\* the sequences over chars of length at most n
SeqsUpTo(chars, n) ==
    IF n = 0 THEN {<<>>}
    ELSE SeqsUpTo(chars, n - 1)
         \cup { Append(s, c) : s \in SeqsUpTo(chars, n - 1), c \in chars }

StemChars == {"0", "1", "9", "a", "-"}

LongStems ==
    {"18446744073709551615", "18446744073709551616", "018446744073709551615-x",
     "0018446744073709551616-x", "99999999999999999999", "184467440737095516150",
     "4294967296-a", "65536", "0128-another-issue", "830-something", "no-number"}

\* entry file names: a stem and the entry extension
EntryFileNames ==
    { stem \o Chars(".md") :
        stem \in SeqsUpTo(StemChars, MaxStemLen) \cup { Chars(s) : s \in LongStems } }

TextChars == {"-", "*", " ", "\n", "a"}

\* entry texts of up to MaxTextLen characters
EntryTexts == SeqsUpTo(TextChars, MaxTextLen)

\* values of components.entry_indent (a u8)
EntryIndents == {0, 2, 4, 253, 254, 255}

InitText ==
    /\ input \in EntryFileNames \cup EntryTexts
    /\ release_dirs = <<>>
    /\ \E i \in EntryIndents :
          config = [DefaultConfig EXCEPT !.components.entry_indent = i]
    /\ sort_impl = "tail"
    /\ changelog = NoneVal
    /\ NoIters

\* extract_entry_id(input)
CallExtractEntryId ==
    /\ result' = [op |-> "extract_entry_id", value |-> extract_entry_id(input)]
    /\ UNCHANGED <<input, release_dirs, config, sort_impl, changelog, iters, yielded, ended>>

\* indent_entries(&entries, entry_indent, entry_indent + 2) as ComponentSection::render
\* and ChangeSetSection::render call it, for one entry whose text is the input.
\* The u8 sum panics when it overflows in a build with overflow checks and
\* wraps in a build without.
CallIndentEntries ==
    /\ \E overflow_checks \in BOOLEAN :
          result' =
              [op |-> "indent_entries",
               value |->
                   IF overflow_checks /\ U8_add_overflows(config.components.entry_indent, 2)
                   THEN PanicOverflowResult
                   ELSE Ok(indent_bulleted_chars(input, config.components.entry_indent,
                               U8_wrapping_add(config.components.entry_indent, 2)))]
    /\ UNCHANGED <<input, release_dirs, config, sort_impl, changelog, iters, yielded, ended>>

\* change_set_section_title(input)
CallChangeSetSectionTitle ==
    /\ result' = [op |-> "change_set_section_title",
                  value |-> change_set_section_title_chars(input)]
    /\ UNCHANGED <<input, release_dirs, config, sort_impl, changelog, iters, yielded, ended>>

NextText ==
    \/ CallExtractEntryId
    \/ CallIndentEntries
    \/ CallChangeSetSectionTitle

SpecText == InitText /\ [][NextText]_vars

\* -------------------------------------------------------------------------
\* Properties of the text functions
\* -------------------------------------------------------------------------

RECURSIVE LeadingDigits(_)
\* the leading run of decimal digits of a text
LeadingDigits(s) ==
    IF s # <<>> /\ is_ascii_digit(s[1]) THEN <<s[1]>> \o LeadingDigits(Tail(s)) ELSE <<>>

RECURSIVE StripZeros(_)
\* a decimal numeral without its leading zeros ("0" for zero)
StripZeros(ds) ==
    IF Len(ds) > 1 /\ ds[1] = "0" THEN StripZeros(Tail(ds)) ELSE ds

RECURSIVE NumeralLess(_, _)
\* order of two numerals of the same length
NumeralLess(a, b) ==
    IF a = <<>> THEN FALSE
    ELSE IF a[1] # b[1] THEN to_digit(a[1]) < to_digit(b[1])
    ELSE NumeralLess(Tail(a), Tail(b))

\* the decimal numeral of 2^64 - 1
U64MaxNumeral == Chars("18446744073709551615")

\* whether the number a numeral (without leading zeros) denotes fits in 64 bits
FitsU64(n) ==
    \/ Len(n) < Len(U64MaxNumeral)
    \/ Len(n) = Len(U64MaxNumeral) /\ ~NumeralLess(U64MaxNumeral, n)

RECURSIVE U64_div10(_, _)
\* limbs (most significant first) divided by ten: quotient and remainder
U64_div10(ms, rem) ==
    IF ms = <<>> THEN [quot |-> <<>>, rem |-> rem]
    ELSE [quot |-> <<(rem * (2^16) + ms[1]) \div 10>>
                   \o U64_div10(Tail(ms), (rem * (2^16) + ms[1]) % 10).quot,
          rem |-> U64_div10(Tail(ms), (rem * (2^16) + ms[1]) % 10).rem]

RECURSIVE NumeralOfLimbs(_)
\* the decimal numeral of a number given by its limbs, most significant first
NumeralOfLimbs(ms) ==
    IF \A l \in 1..Len(ms) : ms[l] = 0 THEN <<>>
    ELSE NumeralOfLimbs(U64_div10(ms, 0).quot) \o <<Digits[U64_div10(ms, 0).rem + 1]>>

\* the decimal numeral of a u64
U64Numeral(v) ==
    IF v = U64Zero THEN <<"0">>
    ELSE NumeralOfLimbs([l \in 1..Len(v) |-> v[Len(v) + 1 - l]])

\* C20: for an entry file name (any text followed by the entry extension),
\* the id is the number its leading digit run denotes, leading zeros
\* ignored, when that number fits in 64 bits; extraction fails when the name
\* has no leading digit, and fails when the number does not fit.
C20_EntryIdIsLeadingNumber ==
    (result.op = "extract_entry_id" /\ input \in EntryFileNames)
        => IF LeadingDigits(input) # <<>> /\ FitsU64(StripZeros(LeadingDigits(input)))
           THEN /\ result.value.ok
                /\ U64Numeral(result.value.value) = StripZeros(LeadingDigits(input))
           ELSE ~result.value.ok

\* an id of 2^64 - 1 has been extracted from a name with a leading zero
C20_Witness ==
    /\ result.op = "extract_entry_id"
    /\ input = Chars("018446744073709551615-x") \o Chars(".md")
    /\ result.value.ok
    /\ U64Numeral(result.value.value) = U64MaxNumeral

\* the text of line k of the input, split at newlines
InputLine(k) == split(input, "\n")[k]

\* C17: entries rendered under a component or General heading come out line
\* by line: as many lines as the text has, each the whitespace-trimmed text
\* of its line after entry_indent spaces when that text starts with '*' or
\* '-', and after entry_indent + 2 spaces otherwise.
C17_EntryLinesIndented ==
    (result.op = "indent_entries" /\ input \in EntryTexts)
        => /\ result.value.ok
           /\ Len(result.value.value) = Len(split(input, "\n"))
           /\ \A k \in 1..Len(result.value.value) :
                 /\ result.value.value[k].text = trim(InputLine(k))
                 /\ result.value.value[k].indent =
                       IF trim(InputLine(k)) # <<>> /\ trim(InputLine(k))[1] \in {"*", "-"}
                       THEN config.components.entry_indent
                       ELSE config.components.entry_indent + 2

\* -------------------------------------------------------------------------
\* The changelog directory on disk
\* -------------------------------------------------------------------------

\* a regular file
File(name, content) == [kind |-> "file", name |-> name, content |-> content]

\* a directory; children in the order fs::read_dir lists them
Dir(name, children) == [kind |-> "dir", name |-> name, children |-> children]

\* fs::metadata(dir.join(name)): the entry of that name, if dir is a
\* directory that has one
Lookup(dir, name) ==
    IF dir.kind = "dir" /\ \E k \in 1..Len(dir.children) : dir.children[k].name = name
    THEN Some(dir.children[CHOOSE k \in 1..Len(dir.children) : dir.children[k].name = name])
    ELSE NoneVal

\* read_to_string_opt(dir.join(name))
read_to_string_opt(dir, name) ==
    IF ~IsSome(Lookup(dir, name)) THEN Ok(NoneVal)
    ELSE IF Unwrap(Lookup(dir, name)).kind = "file"
    THEN Ok(Some(Unwrap(Lookup(dir, name)).content))
    ELSE Err("Io")

RECURSIVE trim_end_newlines(_)
\* str::trim_end_matches(|c| c == '\n' || c == '\r')
trim_end_newlines(s) ==
    IF s # <<>> /\ s[Len(s)] \in {"\n", "\r"}
    THEN trim_end_newlines(SubSeq(s, 1, Len(s) - 1)) ELSE s

\* trim_newlines
trim_newlines(s) == Str(trim_end_newlines(Chars(s)))

\* Option<String>::map(trim_newlines) under a Result
map_trim_newlines(r) ==
    IF r.ok /\ IsSome(r.value) THEN Ok(Some(trim_newlines(Unwrap(r.value)))) ELSE r

RECURSIVE last_dot(_, _)
\* the position of the last '.' among the first k characters, 0 if none
last_dot(s, k) ==
    IF k = 0 THEN 0 ELSE IF s[k] = "." THEN k ELSE last_dot(s, k - 1)

\* Path::extension of a file name: the text after the last '.', unless the
\* name has no '.' or only a leading one
extension(name) ==
    IF last_dot(name, Len(name)) <= 1 THEN NoneVal
    ELSE Some(SubSeq(name, last_dot(name, Len(name)) + 1, Len(name)))

\* entry_filter
entry_filter(cfg, e) ==
    /\ IsSome(extension(Chars(e.name)))
    /\ e.kind = "file"
    /\ Unwrap(extension(Chars(e.name))) = Chars(cfg.change_sets.entry_ext)

\* change_set_section_filter, package_section_filter
dir_filter(e) == e.kind = "dir"

\* release_dir_filter
release_dir_filter(cfg, e) == e.kind = "dir" /\ e.name # cfg.unreleased.folder

\* a collect that would leave the failed items out
collect_results_lenient(rs) ==
    Ok([k \in 1..Len(SelectSeq(rs, LAMBDA r : r.ok)) |-> SelectSeq(rs, LAMBDA r : r.ok)[k].value])

\* Iterator::collect::<Result<Vec<T>>>: the first error, or every value
collect_results(rs) ==
    IF \E k \in 1..Len(rs) : ~rs[k].ok
    THEN rs[CHOOSE k \in 1..Len(rs) : ~rs[k].ok /\ \A j \in 1..(k - 1) : rs[j].ok]
    ELSE Ok([k \in 1..Len(rs) |-> rs[k].value])

\* -------------------------------------------------------------------------
\* Ordering of strings and stable sorting
\* -------------------------------------------------------------------------

\* the characters of this model in byte order
ByteOrder ==
    <<"\t", "\n", "\r", " ", "*", "-", ".">> \o Digits \o UpperLetters \o LowerLetters

byte(c) == CHOOSE k \in 1..Len(ByteOrder) : ByteOrder[k] = c

RECURSIVE chars_cmp(_, _)
\* str::cmp: lexicographic by bytes
chars_cmp(a, b) ==
    IF a = <<>> /\ b = <<>> THEN "Equal"
    ELSE IF a = <<>> THEN "Less"
    ELSE IF b = <<>> THEN "Greater"
    ELSE IF byte(a[1]) < byte(b[1]) THEN "Less"
    ELSE IF byte(a[1]) > byte(b[1]) THEN "Greater"
    ELSE chars_cmp(Tail(a), Tail(b))

\* String::cmp
String_cmp(a, b) == chars_cmp(Chars(a), Chars(b))

\* the comparison closures given to sort_by by the loaders
load_cmp(by, a, b) ==
    CASE by = "id" -> U64_cmp(a.id, b.id)
      [] by = "entry-text" -> String_cmp(a.details, b.details)
      [] by = "title" -> String_cmp(a.title, b.title)
      [] by = "component-id" -> String_cmp(a.id, b.id)

RECURSIVE unstable_insert(_, _, _)
\* an insertion that puts x in front of the elements equal to it
unstable_insert(by, sorted, x) ==
    IF sorted # <<>> /\ load_cmp(by, sorted[Len(sorted)], x) # "Less"
    THEN Append(unstable_insert(by, SubSeq(sorted, 1, Len(sorted) - 1), x), sorted[Len(sorted)])
    ELSE Append(sorted, x)

RECURSIVE stable_insert(_, _, _)
\* put x behind every element that does not compare greater than it
stable_insert(by, sorted, x) ==
    IF sorted # <<>> /\ load_cmp(by, sorted[Len(sorted)], x) = "Greater"
    THEN Append(stable_insert(by, SubSeq(sorted, 1, Len(sorted) - 1), x), sorted[Len(sorted)])
    ELSE Append(sorted, x)

RECURSIVE sort_by(_, _)
\* slice::sort_by, a stable sort; the comparisons of the loaders are total
\* orders of their keys, for which every stable sort gives the same result
sort_by(by, v) ==
    IF v = <<>> THEN <<>>
    ELSE stable_insert(by, sort_by(by, SubSeq(v, 1, Len(v) - 1)), v[Len(v)])

\* -------------------------------------------------------------------------
\* Loading entries, component sections and sections
\* -------------------------------------------------------------------------

Entry_read_from_file_id(file, id) ==
    IF ~id.ok THEN id
    ELSE Ok([id |-> id.value, details |-> trim_newlines(file.content)])

\* Entry::read_from_file
Entry_read_from_file(file) ==
    Entry_read_from_file_id(file, extract_entry_id(Chars(file.name)))

read_entries_sorted_collected(cfg, es) ==
    IF ~es.ok THEN es
    ELSE Ok(sort_by(cfg.change_set_sections.sort_entries_by, es.value))

\* read_entries_sorted
read_entries_sorted(entry_files, cfg) ==
    read_entries_sorted_collected(cfg,
        collect_results([k \in 1..Len(entry_files) |-> Entry_read_from_file(entry_files[k])]))

\* the entries of a directory: read_and_filter_dir with entry_filter, then
\* read_entries_sorted
read_dir_entries(cfg, dir) ==
    read_entries_sorted(SelectSeq(dir.children, LAMBDA e : entry_filter(cfg, e)), cfg)

ComponentSection_read_from_dir_entries(cfg, dir, es) ==
    IF ~es.ok THEN es
    ELSE Ok([id |-> dir.name,
             name |-> cfg.components.all[dir.name].name,
             maybe_path |-> cfg.components.all[dir.name].maybe_path,
             entries |-> es.value])

\* ComponentSection::read_from_dir
ComponentSection_read_from_dir(cfg, dir) ==
    IF dir.name \notin DOMAIN cfg.components.all THEN Err("ComponentNotDefined")
    ELSE ComponentSection_read_from_dir_entries(cfg, dir, read_dir_entries(cfg, dir))

ChangeSetSection_read_from_dir_parts(cfg, dir, component_sections, es) ==
    IF ~component_sections.ok THEN component_sections
    ELSE IF ~es.ok THEN es
    ELSE Ok([id |-> dir.name,
             title |-> Str(change_set_section_title_chars(Chars(dir.name))),
             entries |-> es.value,
             component_sections |-> sort_by("component-id", component_sections.value)])

component_section_dirs(dir) == SelectSeq(dir.children, dir_filter)

\* ChangeSetSection::read_from_dir
ChangeSetSection_read_from_dir(cfg, dir) ==
    ChangeSetSection_read_from_dir_parts(cfg, dir,
        collect_results([k \in 1..Len(component_section_dirs(dir)) |->
            ComponentSection_read_from_dir(cfg, component_section_dirs(dir)[k])]),
        read_dir_entries(cfg, dir))

\* -------------------------------------------------------------------------
\* Loading change sets, releases and the changelog
\* -------------------------------------------------------------------------

\* ChangeSet::read_from_dir without the sort of its sections
ChangeSet_read_from_dir_parts_unsorted(summary, sections) ==
    IF ~summary.ok THEN summary
    ELSE IF ~sections.ok THEN sections
    ELSE Ok([maybe_summary |-> summary.value, sections |-> sections.value])

ChangeSet_read_from_dir_parts(summary, sections) ==
    IF ~summary.ok THEN summary
    ELSE IF ~sections.ok THEN sections
    ELSE Ok([maybe_summary |-> summary.value,
             sections |-> sort_by("title", sections.value)])

\* read_and_filter_dir(path, change_set_section_filter), then the sections
\* loaded and collected; fs::read_dir fails on what is not a directory
read_sections(cfg, dir) ==
    IF dir.kind # "dir" THEN Err("Io")
    ELSE collect_results([k \in 1..Len(SelectSeq(dir.children, dir_filter)) |->
             ChangeSetSection_read_from_dir(cfg, SelectSeq(dir.children, dir_filter)[k])])

\* ChangeSet::read_from_dir
ChangeSet_read_from_dir(cfg, dir) ==
    ChangeSet_read_from_dir_parts(
        map_trim_newlines(read_to_string_opt(dir, cfg.change_sets.summary_filename)),
        read_sections(cfg, dir))

ChangeSet_read_from_dir_some(r) == IF r.ok THEN Ok(Some(r.value)) ELSE r

\* ChangeSet::read_from_dir_opt(config, root.join(name))
ChangeSet_read_from_dir_opt(cfg, root, name) ==
    IF ~IsSome(Lookup(root, name)) THEN Ok(NoneVal)
    ELSE ChangeSet_read_from_dir_some(ChangeSet_read_from_dir(cfg, Unwrap(Lookup(root, name))))

RECURSIVE position_digit(_, _)
\* s.chars().position(|c| c.is_ascii_digit()), scanning from character k
position_digit(s, k) ==
    IF k > Len(s) THEN NoneVal
    ELSE IF is_ascii_digit(s[k]) THEN Some(k - 1)
    ELSE position_digit(s, k + 1)

\* extract_release_version: the text from the first digit on
extract_release_version(s) ==
    IF ~IsSome(position_digit(s, 1)) THEN Err("CannotExtractVersion")
    ELSE Ok(SubSeq(s, Unwrap(position_digit(s, 1)) + 1, Len(s)))

RECURSIVE numeric_value(_)
\* the number a short run of digits denotes
numeric_value(ds) ==
    IF ds = <<>> THEN 0
    ELSE numeric_value(SubSeq(ds, 1, Len(ds) - 1)) * 10 + to_digit(ds[Len(ds)])

\* a numeric identifier of semver: digits without a leading zero
is_numeric_identifier(p) ==
    /\ p # <<>>
    /\ \A k \in 1..Len(p) : is_ascii_digit(p[k])
    /\ (Len(p) > 1 => p[1] # "0")

\* semver::Version::parse for texts without pre-release or build metadata
Version_parse_parts(parts) ==
    IF Len(parts) = 3 /\ \A k \in 1..3 : is_numeric_identifier(parts[k])
    THEN Ok([k \in 1..3 |-> numeric_value(parts[k])])
    ELSE Err("Semver")

Version_parse(s) == Version_parse_parts(split(s, "."))

\* Version::parse(extract_release_version(&id)?)
release_version(id) ==
    IF ~extract_release_version(id).ok THEN extract_release_version(id)
    ELSE Version_parse(extract_release_version(id).value)

Release_read_from_path_parts(dir, version, changes) ==
    IF ~version.ok THEN version
    ELSE IF ~changes.ok THEN changes
    ELSE Ok([id |-> dir.name,
             version |-> version.value,
             maybe_date |-> IF changes.value.maybe_summary = NoneVal THEN NoneVal
                            ELSE ParseDate(Unwrap(changes.value.maybe_summary)),
             changes |-> changes.value])

\* Release::read_from_dir on a directory of the root; the summaries of this
\* model are one line, which is the line parsed as a date
Release_read_from_path(cfg, dir) ==
    Release_read_from_path_parts(dir, release_version(Chars(dir.name)),
                                 ChangeSet_read_from_dir(cfg, dir))

read_releases(cfg, root) ==
    collect_results([k \in 1..Len(SelectSeq(root.children, LAMBDA e : release_dir_filter(cfg, e))) |->
        Release_read_from_path(cfg,
            SelectSeq(root.children, LAMBDA e : release_dir_filter(cfg, e))[k])])

Changelog_read_from_dir_parts(impl, cfg, unreleased, releases, prologue, epilogue) ==
    IF ~unreleased.ok THEN unreleased
    ELSE IF ~releases.ok THEN releases
    ELSE IF ~prologue.ok THEN prologue
    ELSE IF ~epilogue.ok THEN epilogue
    ELSE Ok(Changelog(unreleased.value,
                      sort_releases(impl, cfg.sort_releases_by, releases.value),
                      prologue.value, epilogue.value))

\* Changelog::read_from_dir(config, path); root is what is at the path:
\* nothing, a file or a directory
Changelog_read_from_dir(impl, cfg, root) ==
    IF ~IsSome(root) THEN Err("Io")
    ELSE IF Unwrap(root).kind # "dir" THEN Err("ExpectedDir")
    ELSE Changelog_read_from_dir_parts(impl, cfg,
             ChangeSet_read_from_dir_opt(cfg, Unwrap(root), cfg.unreleased.folder),
             read_releases(cfg, Unwrap(root)),
             map_trim_newlines(read_to_string_opt(Unwrap(root), cfg.prologue_filename)),
             map_trim_newlines(read_to_string_opt(Unwrap(root), cfg.epilogue_filename)))

\* -------------------------------------------------------------------------
\* The directories that loading is applied to: every tree of at most
\* MaxTreeWeight files and directories under the root, built from the names
\* and contents below.  Entry files and section directories are listed in
\* every order, and so are the section and component directories (these
\* are the orders that sorting has to undo); the root is listed in one order.
\* -------------------------------------------------------------------------

MaxTreeWeight == 4

\* "1-a.md" and "01-b.md" have the same id and, once trimmed, the same
\* text; "2-c.md" and "2-d.md" have the same id and different texts;
\* "2-d.md" has the text of "1-a.md" and another id; "x.md" has no id
EntryFiles ==
    {File("1-a.md", "- b\n"), File("01-b.md", "- b"), File("2-c.md", "- a"),
     File("2-d.md", "- b"), File("x.md", "- x")}

\* "zz" is not declared in the configuration
ComponentDirNames == {"c1", "c2", "zz"}

\* "bug-fixes" and "bug fixes" have the same title
SectionDirNames == {"features", "bug-fixes", "bug fixes"}

SummaryContents == {"", "\n", "summary"}

\* "notes" holds no version
ReleaseNames == <<"v0.1.0", "v0.2.0", "notes">>

PrologueContents == {"", "intro\n"}

EpilogueContents == {"", "outro"}

\* w distinct entry files, in any order
FileSeqs(w) ==
    { s \in [1..w -> EntryFiles] : \A a, b \in 1..w : a # b => s[a] # s[b] }

RECURSIVE ComponentDirSeqs(_, _)
\* component directories of distinct names, in any order, of total weight w
ComponentDirSeqs(w, names) ==
    IF w = 0 THEN {<<>>}
    ELSE UNION { UNION { { <<Dir(n, fs)>> \o rest :
                             fs \in FileSeqs(j - 1),
                             rest \in ComponentDirSeqs(w - j, names \ {n}) } :
                         j \in 1..Min(w, Cardinality(EntryFiles) + 1) } :
                 n \in names }

\* a section directory of weight w: entry files, then component directories
SectionDirs(name, w) ==
    UNION { { Dir(name, fs \o cs) :
                fs \in FileSeqs(a), cs \in ComponentDirSeqs(w - 1 - a, ComponentDirNames) } :
            a \in 0..Min(w - 1, Cardinality(EntryFiles)) }

RECURSIVE SectionDirSeqs(_, _)
\* section directories of distinct names, in any order, of total weight w
SectionDirSeqs(w, names) ==
    IF w = 0 THEN {<<>>}
    ELSE UNION { UNION { { <<d>> \o rest : d \in SectionDirs(n, j),
                                            rest \in SectionDirSeqs(w - j, names \ {n}) } :
                         j \in 1..w } :
                 n \in names }

\* what a change set directory holds, of total weight w
ChangeSetChildren(w) ==
    SectionDirSeqs(w, SectionDirNames)
    \cup (IF w = 0 THEN {}
          ELSE { <<File("summary.md", c)>> \o ss :
                   c \in SummaryContents, ss \in SectionDirSeqs(w - 1, SectionDirNames) })

RECURSIVE ReleaseDirSeqs(_, _)
\* release directories named ReleaseNames[k] and later, of total weight w
ReleaseDirSeqs(w, k) ==
    IF k > Len(ReleaseNames) THEN (IF w = 0 THEN {<<>>} ELSE {})
    ELSE ReleaseDirSeqs(w, k + 1)
         \cup UNION { { <<Dir(ReleaseNames[k], ch)>> \o rest :
                          ch \in ChangeSetChildren(j - 1), rest \in ReleaseDirSeqs(w - j, k + 1) } :
                      j \in 1..w }

\* what is at root/unreleased, of weight w: nothing, a file or a directory
UnreleasedSeqs(w) ==
    IF w = 0 THEN {<<>>}
    ELSE (IF w = 1 THEN {<<File("unreleased", "")>>} ELSE {})
         \cup { <<Dir("unreleased", ch)>> : ch \in ChangeSetChildren(w - 1) }

OptionalFile(present, name, contents) ==
    IF present = 1 THEN { <<File(name, c)>> : c \in contents } ELSE {<<>>}

\* what the root directory holds, of total weight w
RootChildren(w) ==
    UNION { UNION { UNION {
        { p \o u \o rs \o e :
            p \in OptionalFile(pro, "prologue.md", PrologueContents),
            e \in OptionalFile(epi, "epilogue.md", EpilogueContents),
            u \in UnreleasedSeqs(uw),
            rs \in ReleaseDirSeqs(w - pro - epi - uw, 1) } :
        uw \in 0..(w - pro - epi) } :
        epi \in 0..Min(1, w - pro) } :
        pro \in 0..Min(1, w) }

\* what is at the path given to Changelog::read_from_dir
Roots(weight) ==
    {NoneVal, Some(File(".changelog", ""))}
    \cup { Some(Dir(".changelog", ch)) : ch \in UNION { RootChildren(w) : w \in 0..weight } }

\* the configuration: the components of DeclaredComponents declared,
\* entries sorted by `by`
LoadConfig(by) == [ModelConfig EXCEPT !.change_set_sections.sort_entries_by = by]

SortEntriesBy == {"id", "entry-text"}

InitLoad ==
    /\ input \in Roots(MaxTreeWeight)
    /\ release_dirs = <<>>
    /\ \E by \in SortEntriesBy : config = LoadConfig(by)
    /\ sort_impl = "tail"
    /\ changelog = NoneVal
    /\ NoIters

\* Changelog::read_from_dir(&config, path)
CallLoad ==
    /\ result.op = "none"
    /\ result' = [op |-> "read_from_dir",
                  value |-> Changelog_read_from_dir(sort_impl, config, input)]
    /\ changelog' = IF result'.value.ok THEN Some(result'.value.value) ELSE NoneVal
    /\ UNCHANGED <<input, release_dirs, config, sort_impl, iters, yielded, ended>>

\* Ok(self.unreleased_paragraphs(config)?.join("\n\n"))
render_unreleased_join(paragraphs) ==
    IF paragraphs.ok THEN Ok(JoinParagraphs(paragraphs.value)) ELSE paragraphs

\* Changelog::render_unreleased
render_unreleased(cl, cfg, overflow_checks) ==
    render_unreleased_join(unreleased_paragraphs(cl, cfg, overflow_checks))

\* changelog.render_unreleased(&config)
CallRenderUnreleased ==
    /\ IsSome(changelog)
    /\ \E overflow_checks \in BOOLEAN :
          result' = [op |-> "render_unreleased",
                     value |-> render_unreleased(Unwrap(changelog), config, overflow_checks)]
    /\ UNCHANGED <<input, release_dirs, config, sort_impl, changelog, iters, yielded, ended>>

NextLoad ==
    \/ CallLoad
    \/ CallRenderAll
    \/ CallRenderReleased
    \/ CallRenderUnreleased

SpecLoad == InitLoad /\ [][NextLoad]_vars

\* -------------------------------------------------------------------------
\* Properties of loading
\* -------------------------------------------------------------------------

\* the position of the entry called name in the listing of dir
ListingPos(dir, name) == CHOOSE k \in 1..Len(dir.children) : dir.children[k].name = name

\* every loaded change set with the directory it was loaded from
LoadedChangeSets(cl, root) ==
    (IF IsSome(cl.maybe_unreleased)
     THEN {[changes |-> Unwrap(cl.maybe_unreleased), dir |-> Unwrap(Lookup(root, "unreleased"))]}
     ELSE {})
    \cup { [changes |-> cl.releases[i].changes, dir |-> Unwrap(Lookup(root, cl.releases[i].id))] :
             i \in 1..Len(cl.releases) }

\* every loaded section with the directory it was loaded from
LoadedSections(cl, root) ==
    UNION { { [section |-> c.changes.sections[j],
               dir |-> Unwrap(Lookup(c.dir, c.changes.sections[j].id))] :
                j \in 1..Len(c.changes.sections) } :
            c \in LoadedChangeSets(cl, root) }

\* every loaded list of entries (of a section or of a component section)
\* with the directory it was loaded from
LoadedEntryLists(cl, root) ==
    { [entries |-> s.section.entries, dir |-> s.dir] : s \in LoadedSections(cl, root) }
    \cup UNION { { [entries |-> s.section.component_sections[c].entries,
                    dir |-> Unwrap(Lookup(s.dir, s.section.component_sections[c].id))] :
                     c \in 1..Len(s.section.component_sections) } :
                 s \in LoadedSections(cl, root) }

\* the number an id of this model's file names is
IdValue(e) == numeric_value(U64Numeral(e.id))

\* a's key is not greater than b's
EntryKeyLeq(by, a, b) ==
    IF by = "id" THEN IdValue(a) <= IdValue(b)
    ELSE chars_cmp(Chars(a.details), Chars(b.details)) # "Greater"

\* the entries of the entry files of dir, in the order of the listing
ListedEntries(cfg, dir) ==
    [k \in 1..Len(SelectSeq(dir.children, LAMBDA e : entry_filter(cfg, e))) |->
        Entry_read_from_file(SelectSeq(dir.children, LAMBDA e : entry_filter(cfg, e))[k]).value]

\* the entries of es whose key is that of e, in their order
WithKeyOf(by, e, es) ==
    SelectSeq(es, LAMBDA x : EntryKeyLeq(by, x, e) /\ EntryKeyLeq(by, e, x))

\* C11: after loading, the entries of every section and component section
\* are in non-decreasing order of the configured key (the number of the id,
\* or the entry text), and the entries of equal key are in the order in
\* which the directory listing has their files.
C11_EntriesSortedStably ==
    IsSome(changelog)
        => \A l \in LoadedEntryLists(Loaded, Unwrap(input)) :
              /\ \A a, b \in 1..Len(l.entries) :
                    a < b => EntryKeyLeq(config.change_set_sections.sort_entries_by,
                                         l.entries[a], l.entries[b])
              /\ \A a \in 1..Len(l.entries) :
                    WithKeyOf(config.change_set_sections.sort_entries_by,
                              l.entries[a], l.entries)
                      = WithKeyOf(config.change_set_sections.sort_entries_by,
                                  l.entries[a], ListedEntries(config, l.dir))

\* a directory listed as 2-d.md, 2-c.md has been loaded by id: the two
\* entries have id 2 and differ in their text, and are in their listing
\* order, which is not the order of their texts
C11_Witness ==
    /\ IsSome(changelog)
    /\ config.change_set_sections.sort_entries_by = "id"
    /\ \E l \in LoadedEntryLists(Loaded, Unwrap(input)) :
          /\ [k \in 1..Len(l.dir.children) |-> l.dir.children[k].name]
                = <<"2-d.md", "2-c.md">>
          /\ [k \in 1..Len(l.entries) |-> l.entries[k].details] = <<"- b", "- a">>
          /\ IdValue(l.entries[1]) = 2 /\ IdValue(l.entries[2]) = 2

\* C12: after loading, the sections of every change set are in
\* non-decreasing order of title, sections of equal title in the order in
\* which the directory listing has them, and the component sections of
\* every section are in non-decreasing order of component id.
C12_SectionsSortedStably ==
    IsSome(changelog)
        => /\ \A c \in LoadedChangeSets(Loaded, Unwrap(input)) :
                 \A a, b \in 1..Len(c.changes.sections) :
                     a < b =>
                         /\ chars_cmp(Chars(c.changes.sections[a].title),
                                      Chars(c.changes.sections[b].title)) # "Greater"
                         /\ c.changes.sections[a].title = c.changes.sections[b].title
                               => ListingPos(c.dir, c.changes.sections[a].id)
                                      < ListingPos(c.dir, c.changes.sections[b].id)
           /\ \A s \in LoadedSections(Loaded, Unwrap(input)) :
                 \A a, b \in 1..Len(s.section.component_sections) :
                     a < b => chars_cmp(Chars(s.section.component_sections[a].id),
                                        Chars(s.section.component_sections[b].id)) # "Greater"

\* sections listed as features, bug-fixes, "bug fixes" have been loaded as
\* bug-fixes, "bug fixes", features
C12_Witness ==
    /\ IsSome(changelog)
    /\ \E c \in LoadedChangeSets(Loaded, Unwrap(input)) :
          /\ [k \in 1..Len(c.dir.children) |-> c.dir.children[k].name]
                = <<"features", "bug-fixes", "bug fixes">>
          /\ [j \in 1..Len(c.changes.sections) |-> c.changes.sections[j].id]
                = <<"bug-fixes", "bug fixes", "features">>

\* -------------------------------------------------------------------------
\* Properties of rendering a loaded changelog
\* -------------------------------------------------------------------------

\* the heading, a blank line, the empty message and the closing newline
EmptyDocument(cfg) ==
    <<Piece("heading", 0, cfg.heading), EmptyPiece,
      Piece("empty_msg", 0, cfg.empty_msg), EmptyPiece>>

RenderedWhole == result.op \in {"render_all", "render_released"}

\* C13: for a changelog whose is_empty() holds, render_all and
\* render_released return exactly the heading, a blank line, the empty
\* message and one newline, with no release heading.
C13_EmptyChangelogRendersEmptyMessage ==
    (RenderedWhole /\ Changelog_is_empty(Loaded))
        => /\ result.value = EmptyDocument(config)
           /\ \A k \in 1..Len(result.value) : result.value[k].kind # "release"

\* an empty changelog that has a release, an empty summary and an empty
\* prologue has been rendered
C13_Witness ==
    /\ RenderedWhole
    /\ Changelog_is_empty(Loaded)
    /\ Loaded.prologue = Some("")
    /\ \E i \in 1..Len(Loaded.releases) : Loaded.releases[i].changes.maybe_summary = Some("")

\* a line without text: an empty piece that follows no bullet and no "#"
IsBlank(piece) ==
    /\ piece.text = ""
    /\ piece.kind \notin {"component", "general", "release", "section"}

\* C14: the text render_all and render_released return ends with exactly
\* one newline, and its blocks are separated by exactly one blank line:
\* its last line break follows a line with text, and no two blank lines
\* are adjacent.
C14_OneBlankLineBetweenBlocks ==
    RenderedWhole
        => /\ Len(result.value) >= 2
           /\ IsBlank(result.value[Len(result.value)])
           /\ ~IsBlank(result.value[Len(result.value) - 1])
           /\ \A k \in 1..(Len(result.value) - 1) :
                 ~(IsBlank(result.value[k]) /\ IsBlank(result.value[k + 1]))

\* whether block occurs in text as consecutive lines
ContainsBlock(text, block) ==
    \E k \in 0..(Len(text) - Len(block)) : SubSeq(text, k + 1, k + Len(block)) = block

\* C15: render_unreleased fails with NoUnreleasedEntries exactly when the
\* unreleased change set is absent or is_empty(); otherwise it returns the
\* unreleased heading, a blank line and the body of the change set; and
\* render_all of a changelog that is not empty has the unreleased block
\* exactly when render_unreleased succeeds.
C15_UnreleasedRenderedWhenNotEmpty ==
    \A overflow_checks \in BOOLEAN :
        /\ result.op = "render_unreleased"
              => IF Loaded.maybe_unreleased = NoneVal
                    \/ ChangeSet_is_empty(Unwrap(Loaded.maybe_unreleased))
                 THEN result.value = Err("NoUnreleasedEntries")
                 ELSE result.value =
                          Ok(<<Piece("unreleased", 0, config.unreleased.heading), EmptyPiece>>
                             \o ChangeSet_render(Unwrap(Loaded.maybe_unreleased), config,
                                                 overflow_checks))
        /\ (result.op = "render_all" /\ ~Changelog_is_empty(Loaded))
              => ((\E k \in 1..Len(result.value) : result.value[k].kind = "unreleased")
                     <=> render_unreleased(Loaded, config, overflow_checks).ok)
        /\ (result.op = "render_all" /\ ~Changelog_is_empty(Loaded)
                /\ render_unreleased(Loaded, config, overflow_checks).ok)
              => ContainsBlock(result.value,
                               render_unreleased(Loaded, config, overflow_checks).value)

\* render_unreleased has failed on an unreleased change set that is present
\* and empty
C15_Witness ==
    /\ result.op = "render_unreleased"
    /\ IsSome(Loaded.maybe_unreleased)
    /\ Unwrap(Loaded.maybe_unreleased).sections # <<>>
    /\ result.value = Err("NoUnreleasedEntries")

\* a section without general entries whose component sections are all empty
SectionIsEmpty(s) ==
    /\ s.entries = <<>>
    /\ \A c \in 1..Len(s.component_sections) : s.component_sections[c].entries = <<>>

\* a change set without summary, made only of such sections
ChangeSetIsEmpty(cs) ==
    /\ cs.maybe_summary \in {NoneVal, Some("")}
    /\ \A j \in 1..Len(cs.sections) : SectionIsEmpty(cs.sections[j])

\* a changelog without prologue and epilogue, made only of such change sets
ChangelogIsEmpty(cl) ==
    /\ cl.maybe_unreleased # NoneVal => ChangeSetIsEmpty(Unwrap(cl.maybe_unreleased))
    /\ \A i \in 1..Len(cl.releases) : ChangeSetIsEmpty(cl.releases[i].changes)
    /\ cl.prologue \in {NoneVal, Some("")}
    /\ cl.epilogue \in {NoneVal, Some("")}

\* the sections of a changelog, as a set of positions
SectionsOf(cl) ==
    (IF cl.maybe_unreleased = NoneVal THEN {}
     ELSE { <<0, j>> : j \in 1..Len(Unwrap(cl.maybe_unreleased).sections) })
    \cup UNION { { <<i, j>> : j \in 1..Len(cl.releases[i].changes.sections) } :
                 i \in 1..Len(cl.releases) }

SectionAt(cl, pos) ==
    IF pos[1] = 0 THEN Unwrap(cl.maybe_unreleased).sections[pos[2]]
    ELSE cl.releases[pos[1]].changes.sections[pos[2]]

\* C16: emptiness is recursive through component sections: render_all of a
\* changelog made only of sections without general entries whose component
\* sections are all empty (and no summary, prologue or epilogue) is the
\* empty message, and render_all emits a `###` heading for exactly the
\* sections that are not empty in this sense.
C16_EmptinessIsRecursive ==
    result.op = "render_all"
        => /\ ChangelogIsEmpty(Loaded) => result.value = EmptyDocument(config)
           /\ Cardinality({ k \in 1..Len(result.value) : result.value[k].kind = "section" })
                 = Cardinality({ pos \in SectionsOf(Loaded) : ~SectionIsEmpty(SectionAt(Loaded, pos)) })

\* whether the unreleased folder exists under the root
UnreleasedFolderExists(root) ==
    /\ IsSome(Lookup(root, "unreleased"))
    /\ Unwrap(Lookup(root, "unreleased")).kind = "dir"

\* the root without whatever is called "unreleased"
WithoutUnreleased(root) ==
    Dir(root.name, SelectSeq(root.children, LAMBDA e : e.name # "unreleased"))

\* C18: a load returns maybe_unreleased = None exactly when the unreleased
\* folder does not exist under the root and Some(change set) exactly when
\* it exists; a missing unreleased folder does not make the load fail (the
\* load succeeds whenever the rest of the root loads); and the unreleased
\* folder is not among the releases.
C18_UnreleasedLoadedWhenPresent ==
    (result.op = "read_from_dir" /\ IsSome(input) /\ Unwrap(input).kind = "dir")
        => /\ result.value.ok
              => /\ IsSome(result.value.value.maybe_unreleased)
                       <=> UnreleasedFolderExists(Unwrap(input))
                 /\ \A i \in 1..Len(result.value.value.releases) :
                       result.value.value.releases[i].id # "unreleased"
           /\ (~UnreleasedFolderExists(Unwrap(input))
                  /\ Changelog_read_from_dir(sort_impl, config,
                                             Some(WithoutUnreleased(Unwrap(input)))).ok)
              => result.value.ok

\* the section directories of the root: those of the unreleased folder and
\* of every other directory of the root
SectionDirsOf(root) ==
    UNION { { d.children[k] : k \in { j \in 1..Len(d.children) : d.children[j].kind = "dir" } } :
            d \in { root.children[k] : k \in { j \in 1..Len(root.children) :
                                                root.children[j].kind = "dir" } } }

\* the component directories of the root
ComponentDirsOf(root) ==
    UNION { { s.children[k] : k \in { j \in 1..Len(s.children) : s.children[j].kind = "dir" } } :
            s \in SectionDirsOf(root) }

\* an entry file in dir whose name does not start with a digit
HasEntryFileWithoutId(dir) ==
    \E k \in 1..Len(dir.children) :
        /\ dir.children[k].kind = "file"
        /\ extension(Chars(dir.children[k].name)) = Some(Chars("md"))
        /\ ~is_ascii_digit(Chars(dir.children[k].name)[1])

\* a release directory name that holds no version: no digit, or no
\* major.minor.patch after the first digit
HasNoVersion(name) == ~release_version(Chars(name)).ok

\* what makes a root unloadable according to the specification
Offending(root, cfg) ==
    \/ ~IsSome(root)
    \/ Unwrap(root).kind # "dir"
    \/ \E k \in 1..Len(Unwrap(root).children) :
          /\ Unwrap(root).children[k].kind = "dir"
          /\ Unwrap(root).children[k].name # "unreleased"
          /\ HasNoVersion(Unwrap(root).children[k].name)
    \/ \E d \in SectionDirsOf(Unwrap(root)) \cup ComponentDirsOf(Unwrap(root)) :
          HasEntryFileWithoutId(d)
    \/ \E c \in ComponentDirsOf(Unwrap(root)) : c.name \notin DOMAIN cfg.components.all

\* C19: read_from_dir returns an error and no changelog whenever the root is
\* not a directory, a directory of the root other than unreleased has a
\* name without a version, an entry file of a section or component
\* directory has a name without a leading digit, or a component directory
\* is not declared in the configuration.
C19_OffendingRootFailsToLoad ==
    (result.op = "read_from_dir" /\ Offending(input, config))
        => ~result.value.ok /\ changelog = NoneVal

\* a root whose undeclared component directory sits next to a loadable
\* release has failed to load
C19_Witness ==
    /\ result.op = "read_from_dir"
    /\ result.value = Err("ComponentNotDefined")
    /\ changelog = NoneVal
    /\ \E c \in ComponentDirsOf(Unwrap(input)) : c.name = "zz"
    /\ \E k \in 1..Len(Unwrap(input).children) : Unwrap(input).children[k].name = "v0.1.0"

\* -------------------------------------------------------------------------
\* The relative path of an entry: EntryPath::as_path and the as_path of
\* each nested path type.  A path is the sequence of its components.
\* -------------------------------------------------------------------------

\* The as_path functions read entry.filename, a field that the Entry of
\* entry.rs does not have.  The data model of the specification has it
\* (Entry = {filename, id, details}): the name of the file that the entry
\* was loaded from.  Changelog_with_filenames is the changelog that the
\* loader gives when Entry::read_from_file records that name.

\* read_entries_sorted over the entry files of dir, each entry with the name
\* of its file
read_dir_entries_with_filenames(cfg, files) ==
    sort_by(cfg.change_set_sections.sort_entries_by,
            [k \in 1..Len(files) |->
                [filename |-> files[k].name,
                 id |-> Entry_read_from_file(files[k]).value.id,
                 details |-> Entry_read_from_file(files[k]).value.details]])

\* a loaded section, its entries and the entries of its component sections
\* with the names of their files
ChangeSetSection_with_filenames(cfg, dir, s) ==
    [id |-> s.id,
     title |-> s.title,
     entries |-> read_dir_entries_with_filenames(cfg,
                     SelectSeq(dir.children, LAMBDA e : entry_filter(cfg, e))),
     component_sections |->
         [c \in 1..Len(s.component_sections) |->
             [id |-> s.component_sections[c].id,
              name |-> s.component_sections[c].name,
              maybe_path |-> s.component_sections[c].maybe_path,
              entries |-> read_dir_entries_with_filenames(cfg,
                              SelectSeq(Unwrap(Lookup(dir, s.component_sections[c].id)).children,
                                        LAMBDA e : entry_filter(cfg, e)))]]]

ChangeSet_with_filenames(cfg, dir, cs) ==
    [maybe_summary |-> cs.maybe_summary,
     sections |-> [j \in 1..Len(cs.sections) |->
                      ChangeSetSection_with_filenames(cfg,
                          Unwrap(Lookup(dir, cs.sections[j].id)), cs.sections[j])]]

\* the changelog cl, loaded from root, with the file name of every entry
Changelog_with_filenames(cfg, root, cl) ==
    [maybe_unreleased |->
         IF IsSome(cl.maybe_unreleased)
         THEN Some(ChangeSet_with_filenames(cfg, Unwrap(Lookup(root, cfg.unreleased.folder)),
                                            Unwrap(cl.maybe_unreleased)))
         ELSE NoneVal,
     releases |-> [i \in 1..Len(cl.releases) |->
                      [id |-> cl.releases[i].id,
                       version |-> cl.releases[i].version,
                       maybe_date |-> cl.releases[i].maybe_date,
                       changes |-> ChangeSet_with_filenames(cfg,
                                       Unwrap(Lookup(root, cl.releases[i].id)),
                                       cl.releases[i].changes)]],
     prologue |-> cl.prologue,
     epilogue |-> cl.epilogue]

\* PathBuf::from(a).join(b), b being a relative path
PathBuf_join(a, b) == a \o b

\* Faulty variant: the component directory is left out of the path.
ChangeSetComponentPath_as_path_flat(cl, p) == <<DerefEntry(cl, p.entry).filename>>

\* ChangeSetComponentPath::as_path
ChangeSetComponentPath_as_path(cl, p) ==
    IF p.tag = "General" THEN <<DerefEntry(cl, p.entry).filename>>
    ELSE PathBuf_join(<<DerefComponent(cl, p.component_section).id>>,
                      <<DerefEntry(cl, p.entry).filename>>)

\* ChangeSetSectionPath::as_path
ChangeSetSectionPath_as_path(cl, p) ==
    PathBuf_join(<<DerefSection(cl, p.change_set_section).id>>,
                 ChangeSetComponentPath_as_path(cl, p.component_path))

\* EntryChangeSetPath::as_path
EntryChangeSetPath_as_path(cl, p) == ChangeSetSectionPath_as_path(cl, p.section_path)

\* EntryReleasePath::as_path
EntryReleasePath_as_path(cl, cfg, p) ==
    IF p.tag = "Unreleased"
    THEN PathBuf_join(<<cfg.unreleased.folder>>,
                      EntryChangeSetPath_as_path(cl, p.change_set_path))
    ELSE PathBuf_join(<<cl.releases[p.release + 1].id>>,
                      EntryChangeSetPath_as_path(cl, p.change_set_path))

\* EntryPath::as_path
EntryPath_as_path(cl, cfg, p) == EntryReleasePath_as_path(cl, cfg, p.release_path)

\* -------------------------------------------------------------------------
\* A changelog is loaded from a directory tree and walked by one entries()
\* iterator.
\* -------------------------------------------------------------------------

NextWalk ==
    \/ CallLoad
    \/ CallEntries(1)
    \/ CallNext(1)

SpecWalk == InitLoad /\ [][NextWalk]_vars

RECURSIVE Resolve(_, _)
\* fs::metadata(node.join(path)): what is at a relative path under a
\* directory, if anything
Resolve(node, path) ==
    IF path = <<>> THEN Some(node)
    ELSE IF node.kind # "dir" \/ ~IsSome(Lookup(node, path[1])) THEN NoneVal
    ELSE Resolve(Unwrap(Lookup(node, path[1])), Tail(path))

\* The names of the directories that the loader reads as releases.
ReleaseDirNamesOf(root, cfg) ==
    { root.children[k].name : k \in { j \in 1..Len(root.children) :
                                        release_dir_filter(cfg, root.children[j]) } }

\* The loaded changelog with the file name of every entry.
LoadedWithFilenames == Changelog_with_filenames(config, Unwrap(input), Loaded)

\* C21: the as_path of every yielded EntryPath is
\* <unreleased folder or release directory>/<section id>/[<component id>/]<file name>
\* and names, under the changelog root, the file that the entry was loaded
\* from: a file with the entry's file name whose content gives the entry.
C21_AsPathIsTheEntryFile ==
    \A k \in 1..Len(yielded[1]) :
        LET p == yielded[1][k]
            path == EntryPath_as_path(LoadedWithFilenames, config, p)
            pos == PathPos(p)
            at == Resolve(Unwrap(input), path)
        IN /\ Len(path) = (IF pos[3] = 0 - 1 THEN 3 ELSE 4)
           /\ IF pos[1] = UnreleasedRef THEN path[1] = config.unreleased.folder
              ELSE path[1] \in ReleaseDirNamesOf(Unwrap(input), config)
           /\ path[2] = DerefSection(Loaded, SectionRef(pos[1], pos[2])).id
           /\ (pos[3] >= 0
                 => path[3] = DerefComponent(Loaded, ComponentRef(pos[1], pos[2], pos[3])).id)
           /\ IsSome(at)
           /\ Unwrap(at).kind = "file"
           /\ Entry_read_from_file(Unwrap(at)) = Ok(EntryPath_entry(Loaded, p))

\* The walk has yielded the entry of a component directory of a release.
C21_Witness ==
    \E k \in 1..Len(yielded[1]) :
        /\ yielded[1][k].release_path.tag = "Released"
        /\ PathPos(yielded[1][k])[3] >= 0
        /\ EntryPath_as_path(LoadedWithFilenames, config, yielded[1][k])
              = <<"v0.1.0", "features", "c1", "1-a.md">>

\* -------------------------------------------------------------------------
\* Equality of entry paths and positions
\* -------------------------------------------------------------------------

C24_WalkEndsAndStaysEnded ==
    /\ [](/\ Len(yielded[1]) <= Len(ChangelogEntryRefs(Loaded))
          /\ \A k1, k2 \in 1..Len(yielded[1]) :
                k1 # k2 => PathPos(yielded[1][k1]) # PathPos(yielded[1][k2])
          /\ (IsSome(iters[1]) /\ Len(yielded[1]) = Len(ChangelogEntryRefs(Loaded)))
                => ChangelogEntryIter_next(Loaded, Unwrap(iters[1])).out = NoneVal
          /\ (IsSome(iters[1]) /\ ended[1])
                => ChangelogEntryIter_next(Loaded, Unwrap(iters[1])).out = NoneVal)
    /\ [][(ended[1] /\ ended'[1]) => yielded'[1] = yielded[1]]_vars

\* A walk over unreleased and released entries has yielded every entry of
\* the changelog, at least three, and then None twice: the second None left
\* the iterator as the first had.
C24_Witness ==
    /\ ended[1]
    /\ Len(yielded[1]) = Len(ChangelogEntryRefs(Loaded))
    /\ Len(yielded[1]) >= 3
    /\ yielded[1][1].release_path.tag = "Unreleased"
    /\ yielded[1][Len(yielded[1])].release_path.tag = "Released"
    /\ ChangelogEntryIter_next(Loaded, Unwrap(iters[1])).it = Unwrap(iters[1])

\* -------------------------------------------------------------------------
\* Consistency of the levels of a yielded path
\* -------------------------------------------------------------------------

\* The entry that a path names exists: among the general entries of the
\* section it names or among the entries of the component section it names,
\* the component section in that section, the section in the change set it
\* names.
EntryExists(cl, r) ==
    /\ (r.cs = UnreleasedRef /\ IsSome(cl.maybe_unreleased)) \/ (r.cs >= 0 /\ r.cs < Len(cl.releases))
    /\ r.sec >= 0 /\ r.sec < Len(DerefChangeSet(cl, r.cs).sections)
    /\ IF r.comp = 0 - 1
       THEN r.ent >= 0 /\ r.ent < Len(DerefSection(cl, r).entries)
       ELSE /\ r.comp >= 0 /\ r.comp < Len(DerefSection(cl, r).component_sections)
            /\ r.ent >= 0 /\ r.ent < Len(DerefComponent(cl, r).entries)

\* C26: in every yielded path the levels agree: the entry lies in the
\* section (and component section) the path names, the section in the
\* change set it names, and that change set is the unreleased one for an
\* Unreleased path and the `changes` of the release it names for a Released
\* path.
C26_YieldedPathsConsistent ==
    \A k \in 1..Len(yielded[1]) :
        LET p == yielded[1][k]
            rp == p.release_path
            sp == rp.change_set_path.section_path
            e == sp.component_path.entry
        IN /\ EntryExists(Loaded, e)
           /\ (sp.component_path.tag = "General") <=> (e.comp = 0 - 1)
           /\ (sp.component_path.tag = "Component"
                 => sp.component_path.component_section = ComponentRef(e.cs, e.sec, e.comp))
           /\ sp.change_set_section = SectionRef(e.cs, e.sec)
           /\ rp.change_set_path.change_set = e.cs
           /\ (rp.tag = "Unreleased") <=> (e.cs = UnreleasedRef)
           /\ (rp.tag = "Released" => rp.release = e.cs)

\* The walk has yielded the entry of the first release and then, as the
\* first entry after moving on, the entry of the second release.
C26_Witness ==
    \E k \in 2..Len(yielded[1]) :
        /\ yielded[1][k - 1].release_path.release = 0
        /\ yielded[1][k].release_path.release = 1
        /\ yielded[1][k].release_path.change_set_path.change_set = 1
        /\ EntryPath_entry(Loaded, yielded[1][k])
              = Loaded.releases[2].changes.sections[1].entries[1]

\* -------------------------------------------------------------------------
\* Released-only rendering
\* -------------------------------------------------------------------------

\* The loaded changelog with its unreleased change set removed.
WithoutUnreleasedChangeSet(cl) == [cl EXCEPT !.maybe_unreleased = NoneVal]

\* C27: render_released returns the text that render_all returns for the
\* same changelog with its unreleased change set removed.
C27_ReleasedIsAllWithoutUnreleased ==
    result.op = "render_released"
        => \A overflow_checks \in BOOLEAN :
              result.value = render_all(WithoutUnreleasedChangeSet(Loaded), config,
                                        overflow_checks)

\* -------------------------------------------------------------------------
\* Operations that change the changelog directory.  The file system is a
\* directory TopName holding what is at the changelog path, if anything; a
\* path is the sequence of names from there.  The state of a call is a
\* record [fs, err]: the file system and the error that has aborted the
\* call, if any (the `?` of every step).  The children of a directory are
\* in the order in which fs::read_dir lists them.
\* -------------------------------------------------------------------------

TopName == "/"

\* the file system in which `root` is what is at the changelog path
ToTop(root) == Dir(TopName, IF IsSome(root) THEN <<Unwrap(root)>> ELSE <<>>)

RootName == ".changelog"

\* what is at the changelog path of a file system
FromTop(top) == Lookup(top, RootName)

Running(fs) == [fs |-> fs, err |-> NoneVal]

Failed(st, e) == [st EXCEPT !.err = Some(e)]

\* path.parent()
Parent(path) == SubSeq(path, 1, Len(path) - 1)

\* path.file_name()
FileName(path) == path[Len(path)]

\* the listing `children` with `new` as its k-th child after the first k
InsertAt(children, k, new) ==
    SubSeq(children, 1, k) \o <<new>> \o SubSeq(children, k + 1, Len(children))

\* The listings that fs::read_dir can give for a directory listed as
\* `children` once `new` has been put into it.  A child of that name is
\* replaced where it is listed.  A new child is listed at the place the
\* file system decides (first on tmpfs, by the hash of its name on ext4):
\* any place, the other children keeping their order.
PutChild(children, new) ==
    IF \E k \in 1..Len(children) : children[k].name = new.name
    THEN {[k \in 1..Len(children) |-> IF children[k].name = new.name THEN new ELSE children[k]]}
    ELSE { InsertAt(children, k, new) : k \in 0..Len(children) }

\* the place of the child of that name in the listing of a directory
ChildIndex(node, name) == CHOOSE k \in 1..Len(node.children) : node.children[k].name = name

RECURSIVE Put(_, _, _)
\* the directory `node` with `new` put into its directory at `path`: one
\* tree for each listing that the directory can then have
Put(node, path, new) ==
    IF path = <<>> THEN { Dir(node.name, children) : children \in PutChild(node.children, new) }
    ELSE IF ~IsSome(Lookup(node, path[1])) THEN {node}
    ELSE { Dir(node.name, [node.children EXCEPT ![ChildIndex(node, path[1])] = child]) :
           child \in Put(node.children[ChildIndex(node, path[1])], Tail(path), new) }

RECURSIVE Remove(_, _)
\* the directory `node` without what is at `path`; what stays is listed in
\* the order it was
Remove(node, path) ==
    IF Len(path) = 1
    THEN Dir(node.name, SelectSeq(node.children, LAMBDA c : c.name # path[1]))
    ELSE Dir(node.name,
             [k \in 1..Len(node.children) |->
                 IF node.children[k].name = path[1]
                 THEN Remove(node.children[k], Tail(path))
                 ELSE node.children[k]])

\* whether the parent of a path is a directory
ParentIsDir(fs, path) ==
    IsSome(Resolve(fs, Parent(path))) /\ Unwrap(Resolve(fs, Parent(path))).kind = "dir"

\* A step that creates something can end in several states, one for each
\* place of the new child in the listing of its directory: every operation
\* below gives the set of the states it can end in.  Then(sts, Op) is the
\* step Op taken from each of the states sts.
Then(sts, Op(_)) == UNION { Op(st) : st \in sts }

\* fs::create_dir(path)?
create_dir(st, path) ==
    IF IsSome(st.err) THEN {st}
    ELSE IF ~ParentIsDir(st.fs, path) \/ IsSome(Resolve(st.fs, path)) THEN {Failed(st, "Io")}
    ELSE { Running(fs) : fs \in Put(st.fs, Parent(path), Dir(FileName(path), <<>>)) }

\* the second half of ensure_dir: `if !fs::metadata(path)?.is_dir()`
ensure_dir_check(st, path) ==
    IF IsSome(st.err) THEN {st}
    ELSE IF ~IsSome(Resolve(st.fs, path)) THEN {Failed(st, "Io")}
    ELSE IF Unwrap(Resolve(st.fs, path)).kind # "dir" THEN {Failed(st, "ExpectedDir")}
    ELSE {st}

\* fs_utils::ensure_dir(path)?
ensure_dir(st, path) ==
    IF IsSome(st.err) THEN {st}
    ELSE IF ~IsSome(Resolve(st.fs, path))
    THEN Then(create_dir(st, path), LAMBDA s : ensure_dir_check(s, path))
    ELSE ensure_dir_check(st, path)

\* fs::write(path, content)?: creates the file or replaces its content
fs_write(st, path, content) ==
    IF IsSome(st.err) THEN {st}
    ELSE IF ~ParentIsDir(st.fs, path) THEN {Failed(st, "Io")}
    ELSE IF IsSome(Resolve(st.fs, path)) /\ Unwrap(Resolve(st.fs, path)).kind = "dir"
    THEN {Failed(st, "Io")}
    ELSE { Running(fs) : fs \in Put(st.fs, Parent(path), File(FileName(path), content)) }

\* The files outside the changelog directory that init_dir is given to
\* copy, each with its content; no file is at any other path given.
OutsideFiles == [name \in {"pro.md", "epi.md"} |-> IF name = "pro.md" THEN "intro\n" ELSE "outro\n"]

\* fs::copy(from, to)?: `from` is a path outside the changelog directory
fs_copy(st, from, to) ==
    IF IsSome(st.err) THEN {st}
    ELSE IF from \notin DOMAIN OutsideFiles THEN {Failed(st, "Io")}
    ELSE fs_write(st, to, OutsideFiles[from])

\* fs::remove_file(path)?
remove_file(st, path) ==
    IF IsSome(st.err) THEN {st}
    ELSE IF ~IsSome(Resolve(st.fs, path)) \/ Unwrap(Resolve(st.fs, path)).kind # "file"
    THEN {Failed(st, "Io")}
    ELSE {Running(Remove(st.fs, path))}

\* fs_utils::rm_gitkeep(path)?
rm_gitkeep(st, path) ==
    IF IsSome(st.err) THEN {st}
    ELSE IF IsSome(Resolve(st.fs, path \o <<".gitkeep">>))
    THEN remove_file(st, path \o <<".gitkeep">>)
    ELSE {st}

\* what is at `from`, under the name it has at `to`
Renamed(node, to) == [node EXCEPT !.name = FileName(to)]

\* fs::rename(from, to)?, nothing being at `to`: what was at `from` is a
\* new child of the parent of `to`
fs_rename(st, from, to) ==
    IF IsSome(st.err) THEN {st}
    ELSE IF ~IsSome(Resolve(st.fs, from)) \/ ~ParentIsDir(st.fs, to) \/ IsSome(Resolve(st.fs, to))
    THEN {Failed(st, "Io")}
    ELSE { Running(fs) :
           fs \in Put(Remove(st.fs, from), Parent(to), Renamed(Unwrap(Resolve(st.fs, from)), to)) }

\* fs_utils::file_exists(path) and fs_utils::dir_exists(path), which
\* changelog.rs calls and the sources at hand do not define: something is at
\* the path and it is a regular file, or a directory.  In the file systems
\* of this model nothing but a regular file is ever at the paths that
\* file_exists is asked about, so that it is there whenever anything is.
file_exists(fs, path) ==
    IsSome(Resolve(fs, path)) /\ Unwrap(Resolve(fs, path)).kind = "file"

\* -------------------------------------------------------------------------
\* Changelog::init_dir, generate_config, add_unreleased_entry and
\* prepare_release_dir
\* -------------------------------------------------------------------------

\* entry_id_to_filename: format!("{}.{}", id, config.change_sets.entry_ext)
entry_id_to_filename(cfg, id) ==
    Str(Chars(id) \o <<".">> \o Chars(cfg.change_sets.entry_ext))

\* Changelog::get_entry_path
get_entry_path(cfg, path, release, section, component, id) ==
    (path \o <<release>> \o <<section>>)
    \o (IF IsSome(component) THEN <<Unwrap(component)>> ELSE <<>>)
    \o <<entry_id_to_filename(cfg, id)>>

\* Changelog::init_empty_unreleased_dir
init_empty_unreleased_dir(st, cfg, path) ==
    Then(ensure_dir(st, path \o <<cfg.unreleased.folder>>),
         LAMBDA s : fs_write(s, path \o <<cfg.unreleased.folder, ".gitkeep">>, ""))

\* the `if let Some(pp) = maybe_prologue_path` of init_dir and the same for
\* the epilogue: the file given is copied to `to` unless a file is there
init_dir_copy(st, maybe_from, to) ==
    IF IsSome(st.err) \/ ~IsSome(maybe_from) \/ file_exists(st.fs, to) THEN {st}
    ELSE fs_copy(st, Unwrap(maybe_from), to)

\* Changelog::init_dir(config, path, maybe_prologue_path, maybe_epilogue_path)
init_dir(st, cfg, path, maybe_prologue_path, maybe_epilogue_path) ==
    Then(Then(Then(ensure_dir(st, path),
                   LAMBDA s : init_dir_copy(s, maybe_prologue_path,
                                            path \o <<cfg.prologue_filename>>)),
              LAMBDA s : init_dir_copy(s, maybe_epilogue_path,
                                       path \o <<cfg.epilogue_filename>>)),
         LAMBDA s : init_empty_unreleased_dir(s, cfg, path))

\* toml::to_string_pretty of Config { maybe_project_url, ..Config::default() }:
\* every field that has its default value is skipped, the URL is absent when
\* it is None
Config_to_toml(maybe_project_url) ==
    IF IsSome(maybe_project_url)
    THEN "project_url = \"" \o Unwrap(maybe_project_url) \o "\"\n"
    ELSE ""

\* Config::write_to_file(path) of Config { maybe_project_url, ..Config::default() }
Config_write_to_file(st, maybe_project_url, path) ==
    fs_write(st, path, Config_to_toml(maybe_project_url))

\* the end of generate_config, from fs::canonicalize(path) on; git_project
\* is None when the parent of the changelog directory has no .git
\* directory, else what from_git_repo returns for it
generate_config_write(st, config_path, path, git_project) ==
    IF ~IsSome(Resolve(st.fs, path)) THEN {Failed(st, "Io")}
    ELSE IF IsSome(git_project) /\ ~Unwrap(git_project).ok
    THEN {Failed(st, Unwrap(git_project).value)}
    ELSE Config_write_to_file(st,
             IF IsSome(git_project) THEN Some(Unwrap(git_project).value) ELSE NoneVal,
             config_path)

\* Changelog::generate_config(config_path, path, remote, force)
generate_config(st, config_path, path, git_project, force) ==
    IF file_exists(st.fs, config_path) /\ ~force
    THEN {Failed(st, "ConfigurationFileAlreadyExists")}
    ELSE generate_config_write(st, config_path, path, git_project)

\* Faulty variant: the entry file is written whether or not it exists.
add_unreleased_entry_write_unchecked(st, entry_path, content) ==
    fs_write(st, entry_path, content)

\* the end of add_unreleased_entry: the FileExists test, then fs::write
add_unreleased_entry_write(st, entry_path, content) ==
    IF IsSome(st.err) THEN {st}
    ELSE IF IsSome(Resolve(st.fs, entry_path)) THEN {Failed(st, "FileExists")}
    ELSE fs_write(st, entry_path, content)

\* the `if let Some(component)` of add_unreleased_entry: st is a state
\* after the unreleased and section directories have been ensured
add_unreleased_entry_dir(st, cfg, section_path, maybe_component) ==
    IF IsSome(st.err) \/ ~IsSome(maybe_component) THEN {st}
    ELSE IF Unwrap(maybe_component) \notin DOMAIN cfg.components.all
    THEN {Failed(st, "ComponentNotDefined")}
    ELSE ensure_dir(st, section_path \o <<Unwrap(maybe_component)>>)

\* Changelog::add_unreleased_entry
add_unreleased_entry(st, cfg, path, section, maybe_component, id, content) ==
    Then(Then(Then(ensure_dir(st, path \o <<cfg.unreleased.folder>>),
                   LAMBDA s : ensure_dir(s, path \o <<cfg.unreleased.folder, section>>)),
              LAMBDA s : add_unreleased_entry_dir(s, cfg, path \o <<cfg.unreleased.folder, section>>,
                                                  maybe_component)),
         LAMBDA s : add_unreleased_entry_write(s,
                        get_entry_path(cfg, path, cfg.unreleased.folder, section,
                                       maybe_component, id),
                        content))

\* what follows the fs::rename of prepare_release_dir
prepare_release_dir_end(sts, cfg, path, version) ==
    Then(Then(sts, LAMBDA s : rm_gitkeep(s, path \o <<version>>)),
         LAMBDA s : init_empty_unreleased_dir(s, cfg, path))

\* Faulty variant: the unreleased folder is copied to the release
\* directory instead of being renamed.
prepare_release_dir_copy(st, cfg, path, version) ==
    prepare_release_dir_end(
        { Running(fs) :
          fs \in Put(st.fs, path,
                     Renamed(Unwrap(Resolve(st.fs, path \o <<cfg.unreleased.folder>>)),
                             path \o <<version>>)) },
        cfg, path, version)

\* the fs::rename of prepare_release_dir and what follows it
prepare_release_dir_move(st, cfg, path, version) ==
    prepare_release_dir_end(
        fs_rename(st, path \o <<cfg.unreleased.folder>>, path \o <<version>>),
        cfg, path, version)

\* Faulty variant: the release directory is not tested for existence.
prepare_release_dir_unguarded(st, cfg, path, version) ==
    IF ~release_version(Chars(version)).ok
    THEN {Failed(st, release_version(Chars(version)).value)}
    ELSE IF ~IsSome(Resolve(st.fs, path \o <<cfg.unreleased.folder>>))
    THEN {Failed(st, "ExpectedDir")}
    ELSE prepare_release_dir_end(
             { Running(fs) :
               fs \in Put(Remove(st.fs, path \o <<cfg.unreleased.folder>>), path,
                          Renamed(Unwrap(Resolve(st.fs, path \o <<cfg.unreleased.folder>>)),
                                  path \o <<version>>)) },
             cfg, path, version)

\* Changelog::prepare_release_dir
prepare_release_dir(st, cfg, path, version) ==
    IF ~release_version(Chars(version)).ok
    THEN {Failed(st, release_version(Chars(version)).value)}
    ELSE IF IsSome(Resolve(st.fs, path \o <<version>>)) THEN {Failed(st, "DirExists")}
    ELSE IF ~IsSome(Resolve(st.fs, path \o <<cfg.unreleased.folder>>))
    THEN {Failed(st, "ExpectedDir")}
    ELSE prepare_release_dir_move(st, cfg, path, version)

\* -------------------------------------------------------------------------
\* A changelog directory is initialised, configured, given entries and
\* released, in any order, the calls succeeding or failing.
\* -------------------------------------------------------------------------

\* add_unreleased_entry is called while the file system has at most this
\* many files and directories
MaxFsNodes == 7

\* generate_config and an init_dir that is given a file to copy are called
\* while the file system has at most this many files and directories
MaxInitNodes == 3

RECURSIVE NodeCount(_)
RECURSIVE NodeCountSeq(_)
\* the files and directories of a tree
NodeCount(node) == IF node.kind = "file" THEN 1 ELSE 1 + NodeCountSeq(node.children)

NodeCountSeq(nodes) ==
    IF nodes = <<>> THEN 0 ELSE NodeCount(nodes[1]) + NodeCountSeq(Tail(nodes))

\* What is at the changelog path before the first call: nothing; a file; an
\* empty directory; a directory whose `unreleased` is a file, holds a
\* directory named .gitkeep, holds a file named as a section, or holds an
\* entry of the undeclared component zz; a directory with a release; a
\* directory with a prologue.
FsRoots ==
    {NoneVal,
     Some(File(RootName, "")),
     Some(Dir(RootName, <<>>)),
     Some(Dir(RootName, <<File("unreleased", "")>>)),
     Some(Dir(RootName, <<Dir("unreleased", <<Dir(".gitkeep", <<>>)>>)>>)),
     Some(Dir(RootName, <<Dir("unreleased", <<File("features", "")>>)>>)),
     Some(Dir(RootName, <<Dir("unreleased", <<Dir("features", <<Dir("zz", <<File("1-a.md", "- b")>>)>>)>>)>>)),
     Some(Dir(RootName, <<Dir("v0.1.0", <<>>)>>)),
     Some(Dir(RootName, <<File("prologue.md", "old\n")>>))}

FsSections == {"features"}

\* c1 is declared in the configuration, zz is not
FsComponents == {NoneVal, Some("c1"), Some("zz")}

FsIds == {"1-a"}

FsContents == {"- b\n", "- a"}

\* "notes" holds no version, "v1.0" no semantic version
FsVersions == {"v0.1.0", "notes", "v1.0"}

\* the prologue given to init_dir: none, a file, a path at which nothing is
FsProloguePaths == {NoneVal, Some("pro.md"), Some("none.md")}

\* the epilogue given to init_dir: none or a file
FsEpiloguePaths == {NoneVal, Some("epi.md")}

\* the configuration file is the config.toml of the changelog directory
FsConfigPaths == {<<RootName, "config.toml">>}

\* The parent of the changelog directory is no Git repository, or it is one
\* and from_git_repo gives the URL of its project, or fails.
FsGitProjects ==
    {NoneVal, Some(Ok("https://github.com/informalsystems/unclog")), Some(Err("Git"))}

InitFs ==
    /\ input \in FsRoots
    /\ release_dirs = <<>>
    /\ config = LoadConfig("id")
    /\ sort_impl = "tail"
    /\ changelog = NoneVal
    /\ NoIters

\* The call `op` with arguments `args` has run on the file system and
\* ended as r.
FsCall(op, args, r) ==
    /\ input' = FromTop(r.fs)
    /\ result' = [op |-> op, args |-> args,
                  value |-> IF IsSome(r.err) THEN Err(Unwrap(r.err)) ELSE Ok(<<>>)]
    /\ UNCHANGED <<release_dirs, config, sort_impl, changelog, iters, yielded, ended>>

\* Changelog::init_dir(&config, path, maybe_prologue_path, maybe_epilogue_path)
CallInitDir ==
    \E prologue \in FsProloguePaths, epilogue \in FsEpiloguePaths :
        /\ (IsSome(prologue) \/ IsSome(epilogue)) => NodeCount(ToTop(input)) <= MaxInitNodes
        /\ \E r \in init_dir(Running(ToTop(input)), config, <<RootName>>, prologue, epilogue) :
              FsCall("init_dir", <<>>, r)

\* Changelog::generate_config(config_path, path, remote, force)
CallGenerateConfig ==
    /\ NodeCount(ToTop(input)) <= MaxInitNodes
    /\ \E config_path \in FsConfigPaths, git_project \in FsGitProjects, force \in BOOLEAN :
          \E r \in generate_config(Running(ToTop(input)), config_path, <<RootName>>,
                                   git_project, force) :
              FsCall("generate_config", <<>>, r)

\* Changelog::add_unreleased_entry(&config, path, section, component, id, content)
CallAddUnreleasedEntry ==
    /\ NodeCount(ToTop(input)) <= MaxFsNodes
    /\ \E section \in FsSections, component \in FsComponents, id \in FsIds, content \in FsContents :
          \E r \in add_unreleased_entry(Running(ToTop(input)), config, <<RootName>>,
                                        section, component, id, content) :
              FsCall("add_unreleased_entry",
                     [section |-> section, component |-> component, id |-> id, content |-> content],
                     r)

\* Changelog::prepare_release_dir(&config, path, version)
CallPrepareReleaseDir ==
    \E version \in FsVersions :
        \E r \in prepare_release_dir(Running(ToTop(input)), config, <<RootName>>, version) :
            FsCall("prepare_release_dir", [version |-> version], r)

NextFs ==
    \/ CallInitDir
    \/ CallGenerateConfig
    \/ CallAddUnreleasedEntry
    \/ CallPrepareReleaseDir

SpecFs == InitFs /\ [][NextFs]_vars

\* -------------------------------------------------------------------------
\* Effects of the calls on the changelog directory
\* -------------------------------------------------------------------------

\* the children of a directory other than those named in `names`
ChildrenExcept(dir, names) == { dir.children[k] : k \in { j \in 1..Len(dir.children) :
                                                           dir.children[j].name \notin names } }

\* The step is a successful prepare_release_dir call.
Released(version) ==
    /\ result'.op = "prepare_release_dir"
    /\ result'.args.version = version
    /\ result'.value.ok

\* C23: a successful prepare_release_dir(version) leaves a new directory
\* named `version` that holds exactly what the unreleased folder held
\* except .gitkeep, and an unreleased folder that holds only an empty
\* .gitkeep; everything else under the root is as before.
C23_ReleaseMovesUnreleased ==
    [][\A version \in FsVersions :
          Released(version)
             => /\ ~IsSome(Lookup(Unwrap(input), version))
                /\ IsSome(Lookup(Unwrap(input'), version))
                /\ Unwrap(Lookup(Unwrap(input'), version)).kind = "dir"
                /\ Unwrap(Lookup(Unwrap(input'), version)).children
                     = SelectSeq(Unwrap(Lookup(Unwrap(input), config.unreleased.folder)).children,
                                 LAMBDA c : c.name # ".gitkeep")
                /\ Lookup(Unwrap(input'), config.unreleased.folder)
                     = Some(Dir(config.unreleased.folder, <<File(".gitkeep", "")>>))
                /\ ChildrenExcept(Unwrap(input'), {version, config.unreleased.folder})
                     = ChildrenExcept(Unwrap(input), {config.unreleased.folder})]_vars

\* The file that an add_unreleased_entry call with these arguments writes.
TargetOf(args) ==
    <<TopName>> \o get_entry_path(config, <<RootName>>, config.unreleased.folder,
                                 args.section, args.component, args.id)

\* what is at a path from the top of the file system holding `root`
At(root, path) == Resolve(ToTop(root), Tail(path))

\* An add_unreleased_entry call has left what was at its target as it was.
TargetKept(target) ==
    /\ IsSome(At(input, target))
    /\ At(input', target) = At(input, target)

\* An add_unreleased_entry call has created its target with the content
\* given.
TargetCreated(target, content) ==
    /\ ~IsSome(At(input, target))
    /\ At(input', target) = Some(File(FileName(target), content))

\* The statement of C25 as given: whenever the target exists the call
\* returns FileExists and the target is kept; a successful call has created
\* the target with the content given.
C25_ExistingTargetGivesFileExists ==
    [][result'.op = "add_unreleased_entry"
          => /\ IsSome(At(input, TargetOf(result'.args)))
                  => (result'.value = Err("FileExists") /\ TargetKept(TargetOf(result'.args)))
             /\ result'.value.ok
                  => TargetCreated(TargetOf(result'.args), result'.args.content)]_vars

\* C25: add_unreleased_entry never overwrites: whenever the target exists
\* the call returns an error (FileExists, or ComponentNotDefined when the
\* component given is not declared in the configuration) and the target is
\* kept; FileExists is returned only then; a successful call has created
\* the target, which did not exist, with exactly the content given.
C25_NeverOverwrites ==
    [][result'.op = "add_unreleased_entry"
          => /\ IsSome(At(input, TargetOf(result'.args)))
                  => /\ TargetKept(TargetOf(result'.args))
                     /\ result'.value
                          = (IF IsSome(result'.args.component)
                                /\ Unwrap(result'.args.component) \notin DOMAIN config.components.all
                             THEN Err("ComponentNotDefined") ELSE Err("FileExists"))
             /\ result'.value = Err("FileExists") => TargetKept(TargetOf(result'.args))
             /\ result'.value.ok
                  => TargetCreated(TargetOf(result'.args), result'.args.content)]_vars

\* A call has returned FileExists for an entry of component c1 that exists
\* with another content than the one given.
C25_Witness ==
    /\ result.op = "add_unreleased_entry"
    /\ result.value = Err("FileExists")
    /\ result.args.component = Some("c1")
    /\ IsSome(At(input, TargetOf(result.args)))
    /\ Unwrap(At(input, TargetOf(result.args))).content # result.args.content

\* One of the three causes for which prepare_release_dir(version) refuses
\* to act holds before the call: the version holds no semantic version,
\* something exists at the release path, nothing exists at the unreleased
\* path.
RefusalCause(version) ==
    \/ ~release_version(Chars(version)).ok
    \/ IsSome(At(input, <<TopName, RootName, version>>))
    \/ ~IsSome(At(input, <<TopName, RootName, config.unreleased.folder>>))

RefusalErrors ==
    {Err("CannotExtractVersion"), Err("Semver"), Err("DirExists"), Err("ExpectedDir")}

\* C28: a prepare_release_dir call made when the version has no parseable
\* semantic version, the release directory exists or the unreleased folder
\* does not exist fails with the error of that cause, and a call that fails
\* with such an error has changed nothing in the file system.
C28_RefusedReleaseChangesNothing ==
    [][result'.op = "prepare_release_dir"
          => /\ RefusalCause(result'.args.version)
                  => (result'.value \in RefusalErrors /\ input' = input)
             /\ result'.value \in RefusalErrors
                  => (RefusalCause(result'.args.version) /\ input' = input)]_vars

\* A call has failed with DirExists while the unreleased folder held an
\* entry: a rename would have moved it.
C28_Witness ==
    /\ result.op = "prepare_release_dir"
    /\ result.value = Err("DirExists")
    /\ IsSome(At(input, <<TopName, RootName, result.args.version>>))
    /\ IsSome(At(input, <<TopName, RootName, "unreleased", "features", "1-a.md">>))

\* C29: an add_unreleased_entry call that returns ComponentNotDefined or
\* FileExists has changed nothing in the file system, and read_from_dir
\* returns after it what it returned before.
C29_FailedAddChangesNothing ==
    [][(/\ result'.op = "add_unreleased_entry"
        /\ result'.value \in {Err("ComponentNotDefined"), Err("FileExists")})
          => /\ input' = input
             /\ Changelog_read_from_dir(sort_impl, config, input')
                  = Changelog_read_from_dir(sort_impl, config, input)]_vars

RECURSIVE FilesBelow(_, _)
\* the regular files under a node, each with its path from `prefix` on and
\* its content
FilesBelow(node, prefix) ==
    IF node.kind = "file" THEN {<<prefix, node.content>>}
    ELSE UNION { FilesBelow(node.children[k], Append(prefix, node.children[k].name)) :
                 k \in 1..Len(node.children) }

\* The entry files of a changelog directory: the files at
\* <change set directory>/<section>/[<component>/]<file>, with their
\* content.
EntryFilesOf(root) ==
    IF ~IsSome(root) THEN {}
    ELSE { f \in FilesBelow(Unwrap(root), <<>>) : Len(f[1]) \in {3, 4} }

\* the path of an entry file of the unreleased folder once the folder has
\* become the release directory `version`
InRelease(path, version) == <<version>> \o Tail(path)

\* The entry file f of before the step is, after it, in exactly one place
\* with its content: where it was or, when the step is a
\* prepare_release_dir call and the file was unreleased, as a new file of
\* the release directory.
KeptInOnePlace(f, before, after) ==
    IF result'.op = "prepare_release_dir" /\ f[1][1] = config.unreleased.folder
    THEN (f \in after)
            # (<<InRelease(f[1], result'.args.version), f[2]>> \in after \ before)
    ELSE f \in after

\* The entry files after a step are those of before it, each in one place,
\* and the one file that a successful add_unreleased_entry call has written.
EntryFilesKept(before, after) ==
    /\ \A f \in before : KeptInOnePlace(f, before, after)
    /\ Cardinality(after)
         = Cardinality(before)
           + (IF result'.op = "add_unreleased_entry" /\ result'.value.ok THEN 1 ELSE 0)
    /\ (result'.op = "add_unreleased_entry" /\ result'.value.ok)
          => <<Tail(Tail(TargetOf(result'.args))), result'.args.content>> \in after \ before

\* C30: no init_dir, add_unreleased_entry or prepare_release_dir call,
\* succeeding or failing, deletes, overwrites or duplicates an entry file:
\* every entry file is after the call in exactly one place (where it was,
\* or in the new release directory) with its content, and the only new
\* entry file is the one a successful add_unreleased_entry has written.  By
\* induction every file written by a successful add_unreleased_entry exists
\* with its original content in exactly one place after any sequence of
\* calls.
C30_EntriesNeverLost ==
    [][EntryFilesKept(EntryFilesOf(input), EntryFilesOf(input'))]_vars

\* The same entry has been added, released and added again with another
\* content: both files exist, one in the release directory and one in the
\* unreleased folder.
C30_Witness ==
    /\ result.op = "add_unreleased_entry"
    /\ result.value.ok
    /\ At(input, <<TopName, RootName, "v0.1.0", "features", "1-a.md">>)
         = Some(File("1-a.md", "- a"))
    /\ At(input, <<TopName, RootName, "unreleased", "features", "1-a.md">>)
         = Some(File("1-a.md", "- b\n"))

====
